---- MODULE Spec2Model ----
(***************************************************************************)
(* QDeep / MatrixP: page allocator (mp_page), pool (mp_pool), matrix       *)
(* index and matrix streaming (mp_matrix), modelled from the C sources.    *)
(*                                                                         *)
(* Pointers are small naturals: a page descriptor is its creation index    *)
(* (1, 2, ...), a chunk descriptor of a page is <<page, pos>>, NULL is 0.  *)
(* C arrays are 0-based; the tuples that hold them are 1-based, so the C   *)
(* element a[i] is the tuple element a[i + 1].                             *)
(***************************************************************************)
EXTENDS Integers, Sequences, FiniteSets, TLC

(***************************************************************************)
(* Bounds of the model.                                                    *)
(***************************************************************************)
\* chunks per page; 1024 in src/mp_page.h:58, scaled down
PAGE_SIZE == 2
\* pages a pool may map
MaxPages == 3
\* pages of a pool that only grows
MaxTreePages == 7
\* chunk descriptors a matrix indexes
MaxChunks == 6
\* calls made on the index of a matrix
MaxCalls == 7
\* bytes of a 64-bit word; 8 in the source, scaled down
WORD == 2
\* bits of a byte; 8 in the source, scaled down
ByteBits == 3
\* bytes one splice moves at most; CHUNK_SIZE * 8 in src/mp_chunk.h:103,
\* scaled down
CHUNK_BYTES == 4
\* columns and rows of a matrix
MaxDim == 2
\* system calls of one call of the program that the kernel disturbs
MaxPlan == 1
\* elements in a row and rows of a chunk; 256 in src/mp_chunk.h:78, scaled
\* down
CHUNK_W == 2

(***************************************************************************)
(* Program constants.                                                      *)
(***************************************************************************)
UINT16_MAX == 65535
\* what mmap returns when it fails
MAP_FAILED == -1
MP_BLACK == 0
MP_RED == 1
NULL == 0

\* the NULL chunk pointer
NoChunk == <<NULL, NULL>>

\* content of memory that malloc returned and nobody has written yet
Unwritten == -1

\* slots of mp_tree.stack and mp_tree.sides
StackSlots == 32

\* matx->fd of a matrix without a file
NoFd == -1

\* the descriptor of the stream A; the descriptor of matrix i's file is i
StreamA == 0

\* what a system call or a call of the program "returns" when it never does
Never == -2

VARIABLES
    pool,     \* mp_pool: [head, root, size]
    page,     \* the mp_page descriptors malloc'ed so far, by creation index
    held,     \* chunks issued to the caller and not returned
    result,   \* "null" when the last mp_pool_get returned NULL, else "ok"
    twice,    \* TRUE once mp_pool_get has issued a chunk a caller still held
    fault,    \* "none", or how the process died
    s1,       \* progress through scenario S1, or Off
    tree,     \* mp_tree: [root, find, offset, pos, stack, sides]
    chunk,    \* tree fields of the matrix's chunk descriptors: [sides, color]
    present,  \* chunks the caller inserted in the index and has not removed
    calls,    \* calls made on the index so far
    rets,     \* the chunks mp_tree_free has handed to mp_pool_ret, in order
    matx,     \* the mp_matrix structures M and M': [size, fd]
    sys,      \* the kernel: [plan, errno, wire, wclosed, file, fpos]
    status,   \* how mp_matrix_send and mp_matrix_recv ended, "none" before
    endian,   \* byte order of the host, "little" or "big"
    snap,     \* size and payload of M when mp_matrix_send was called
    env,      \* whether mp_matrix_send and mp_matrix_recv ran under the empty plan
    lastCall, \* the mp_matrix_set_size call that led to this state, if one did
    heap,     \* malloc, munmap and free: [unmapped, scrap, freed]
    cbuf      \* one chunk and the memory behind its data pointer: [size, data]

poolVars == <<pool, page, held, result, twice, s1, heap>>
indexVars == <<tree, chunk, present, calls, rets>>
ioVars == <<matx, sys, status, endian, snap, env, lastCall>>
vars == <<poolVars, fault, indexVars, ioVars, cbuf>>

Pos == 0 .. (PAGE_SIZE - 1)

\* F applied to the value of v, v evaluated once: the C local "x = v; ..."
With(v, F(_)) == CHOOSE r \in { F(x) : x \in {v} } : TRUE

\* the heap before mp_pool_free: no page unmapped, nothing freed by a get
FreshHeap == [unmapped |-> <<>>, scrap |-> "none", freed |-> FALSE]

\* the chunk variable while no chunk transfer is what runs
ChunkIdle == cbuf = [size |-> <<0, 0>>, data |-> <<>>, edge |-> FALSE]

(***************************************************************************)
(* mp_page                                                                 *)
(***************************************************************************)

\* mp_page_full taking a page for full one position early
mp_page_full_early(pg) == (pg.fill >= PAGE_SIZE - 1) /\ (pg.free = UINT16_MAX)

\* a page is full when every position was issued once and the ring is empty
mp_page_full(pg) == (pg.fill = PAGE_SIZE) /\ (pg.free = UINT16_MAX)

\* the descriptor after mp_page_init mapped it at address data; the ring
\* arrays keep what malloc left in them (junk), sides and color are not set
mp_page_init(data, junk) ==
    [ data  |-> data,
      next  |-> junk[1],
      prev  |-> junk[2],
      free  |-> UINT16_MAX,
      fill  |-> 0,
      sides |-> <<Unwritten, Unwritten>>,
      color |-> Unwritten,
      nextp |-> NULL,
      prevp |-> NULL ]

\* mp_page_get_pos leaving free as it is when pos is the only member
mp_page_get_pos_stay(pg, pos) ==
    IF pg.next[pos] = pos
    THEN pg
    ELSE With([pg EXCEPT !.prev[pg.next[pos]] = pg.prev[pos]], LAMBDA g1 :
         With([g1 EXCEPT !.next[g1.prev[pos]] = g1.next[pos]], LAMBDA g2 :
         IF g2.free = pos THEN [g2 EXCEPT !.free = g2.next[pos]] ELSE g2))

\* remove position pos from the free ring
mp_page_get_pos(pg, pos) ==
    IF pg.next[pos] = pos
    THEN [pg EXCEPT !.free = UINT16_MAX]
    ELSE With([pg EXCEPT !.prev[pg.next[pos]] = pg.prev[pos]], LAMBDA g1 :
         With([g1 EXCEPT !.next[g1.prev[pos]] = g1.next[pos]], LAMBDA g2 :
         IF g2.free = pos THEN [g2 EXCEPT !.free = g2.next[pos]] ELSE g2))

\* mutant: the head's prev link is not redirected to the new tail
mp_page_ret_pos_noprev(pg, pos) ==
    IF pg.free = UINT16_MAX
    THEN [pg EXCEPT !.free = pos, !.next[pos] = pos, !.prev[pos] = pos]
    ELSE LET free == pg.free
             tail == pg.prev[pg.free]
         IN  [pg EXCEPT !.next[pos] = free, !.prev[pos] = tail, !.next[tail] = pos]

\* insert position pos into the free ring, before the head (at the tail);
\* free and tail are read before the four stores
mp_page_ret_pos(pg, pos) ==
    IF pg.free = UINT16_MAX
    THEN [pg EXCEPT !.free = pos, !.next[pos] = pos, !.prev[pos] = pos]
    ELSE LET free == pg.free
             tail == pg.prev[pg.free]
         IN  [pg EXCEPT !.next[pos] = free, !.prev[pos] = tail,
                        !.next[tail] = pos, !.prev[free] = pos]

\* mutant: the ring head is issued but stays in the ring
mp_page_get_new_keep(pg) ==
    IF pg.fill < PAGE_SIZE
    THEN <<pg.fill, [pg EXCEPT !.fill = pg.fill + 1]>>
    ELSE <<pg.free, pg>>

\* mp_page_get_new taking from the ring before it extends fill
mp_page_get_new_ring_first(pg) ==
    IF pg.free # UINT16_MAX
    THEN <<pg.free, mp_page_get_pos(pg, pg.free)>>
    ELSE IF pg.fill < PAGE_SIZE
         THEN <<pg.fill, [pg EXCEPT !.fill = pg.fill + 1]>>
         ELSE <<UINT16_MAX, pg>>

\* mp_page_get_new: <<position issued or UINT16_MAX for NULL, page afterwards>>
mp_page_get_new(pg) ==
    IF pg.fill < PAGE_SIZE
    THEN <<pg.fill, [pg EXCEPT !.fill = pg.fill + 1]>>
    ELSE IF pg.free = UINT16_MAX
         THEN <<UINT16_MAX, pg>>
         ELSE <<pg.free, mp_page_get_pos(pg, pg.free)>>

mp_page_get(pg, pos) == mp_page_get_pos(pg, pos)

mp_page_ret(pg, pos) == mp_page_ret_pos(pg, pos)

\* the members of the free ring, walking next from free
RECURSIVE RingFrom(_, _, _)
RingFrom(pg, i, seen) ==
    IF i \in seen \/ i \notin Pos THEN seen
    ELSE With(seen \cup {i}, LAMBDA s2 : RingFrom(pg, pg.next[i], s2))

Ring(pg) == IF pg.free = UINT16_MAX THEN {} ELSE RingFrom(pg, pg.free, {})

(***************************************************************************)
(* mp_pool                                                                 *)
(***************************************************************************)

\* address of the payload of chunk c = <<page, pos>>, in units of one chunk
ChunkData(pg, c) == pg[c[1]].data + c[2]

\* push page p at the head of the circular list; head and last are read
\* before the four stores
mp_pool_list_insert(pl, pg, p) ==
    LET head == IF pl.head # NULL THEN pl.head ELSE p
        last == IF pl.head # NULL THEN pg[pl.head].prevp ELSE p
    IN  [pool |-> [pl EXCEPT !.head = p, !.size = pl.size + 1],
         page |-> [pg EXCEPT ![p].nextp = head, ![p].prevp = last,
                             ![head].prevp = p, ![last].nextp = p]]

\* mutant: the head is kept even when it is the page removed
mp_pool_list_remove_head(pl, pg, p) ==
    LET prev == pg[p].prevp
        next == pg[p].nextp
        size == pl.size - 1
        head == IF size = 0 THEN NULL ELSE pl.head
    IN  [pool |-> [pl EXCEPT !.head = head, !.size = size],
         page |-> [pg EXCEPT ![prev].nextp = next, ![next].prevp = prev]]

\* unlink page p; size is decremented before the head is chosen
mp_pool_list_remove(pl, pg, p) ==
    LET prev == pg[p].prevp
        next == pg[p].nextp
        size == pl.size - 1
        head == IF size = 0 THEN NULL
                ELSE IF pl.head = p THEN next ELSE pl.head
    IN  [pool |-> [pl EXCEPT !.head = head, !.size = size],
         page |-> [pg EXCEPT ![prev].nextp = next, ![next].prevp = prev]]

\* mp_pool_list_rotate leaving the head where it is
mp_pool_list_rotate_stay(pl, pg) == pl

mp_pool_list_rotate(pl, pg) ==
    IF pl.head # NULL THEN [pl EXCEPT !.head = pg[pl.head].nextp] ELSE pl

\* the descent of mp_pool_tree_insert: pool->stack and pool->sides
RECURSIVE PoolDescend(_, _, _, _, _)
PoolDescend(pg, node, data, stack, sides) ==
    IF node = NULL THEN [stack |-> stack, sides |-> sides]
    ELSE LET side == IF pg[node].data < data THEN 1 ELSE 0
         IN  With(<<pg[node].sides[side + 1], Append(stack, node), Append(sides, side)>>,
                  LAMBDA n : PoolDescend(pg, n[1], data, n[2], n[3]))

\* the zig-zag case: the parent x is rotated under its child first
PoolZig(pg, g, x, side) ==
    LET y == pg[x].sides[(1 - side) + 1]
    IN  [pg EXCEPT ![x].sides[(1 - side) + 1] = pg[y].sides[side + 1],
                   ![y].sides[side + 1] = x,
                   ![g].sides[side + 1] = y]

\* the rebalancing loop of mp_pool_tree_insert, entered with pos already
\* decremented; st is [root, page]
RECURSIVE PoolRebalance(_, _, _, _)
PoolRebalance(st, stack, sides, pos) ==
    IF pos < 0 THEN st
    ELSE
    LET pg   == st.page
        side == sides[pos + 1]
        g    == stack[pos + 1]
        y    == st.page[stack[pos + 1]].sides[(1 - sides[pos + 1]) + 1]
        x    == stack[pos + 2]
        zig  == sides[pos + 1] = 1 - sides[pos + 2]
    IN  IF pg[x].color = MP_BLACK THEN st
        ELSE IF (IF y # NULL THEN pg[y].color = MP_RED ELSE FALSE)
        THEN With([st EXCEPT !.page = [pg EXCEPT ![x].color = MP_BLACK,
                                                 ![y].color = MP_BLACK,
                                                 ![g].color = MP_RED]],
                  LAMBDA s2 : PoolRebalance(s2, stack, sides, pos - 2))
        ELSE
        With(IF zig THEN pg[x].sides[(1 - side) + 1] ELSE x, LAMBDA x2 :
        With(IF zig THEN PoolZig(pg, g, x, side) ELSE pg, LAMBDA a :
        With([a EXCEPT ![g].color = MP_RED,
                       ![x2].color = MP_BLACK,
                       ![g].sides[side + 1] = a[x2].sides[(1 - side) + 1],
                       ![x2].sides[(1 - side) + 1] = g], LAMBDA b :
            IF pos = 0
            THEN [root |-> x2, page |-> b]
            ELSE [root |-> st.root,
                  page |-> [b EXCEPT ![stack[pos]].sides[sides[pos] + 1] = x2]])))

\* mp_pool_tree_insert up to its last statement: [root, page]
PoolTreeLink(pl, pg, p) ==
    With(PoolDescend(pg, pl.root, pg[p].data, <<>>, <<>>), LAMBDA d :
    With(Len(d.stack) - 1, LAMBDA pos :
    With([pg EXCEPT ![p].color = MP_RED, ![p].sides = <<NULL, NULL>>], LAMBDA g1 :
    With([root |-> IF pos = -1 THEN p ELSE pl.root,
          page |-> IF pos = -1 THEN g1
                   ELSE [g1 EXCEPT ![d.stack[pos + 1]].sides[d.sides[pos + 1] + 1] = p]],
         LAMBDA st : PoolRebalance(st, d.stack, d.sides, pos - 1)))))

\* mutant: the root is not forced black at the end
mp_pool_tree_insert_red(pl, pg, p) ==
    With(PoolTreeLink(pl, pg, p), LAMBDA r :
        [pool |-> [pl EXCEPT !.root = r.root], page |-> r.page])

\* insert page p, keyed by its data pointer, into the tree under pool.root
mp_pool_tree_insert(pl, pg, p) ==
    With(PoolTreeLink(pl, pg, p), LAMBDA r :
        [pool |-> [pl EXCEPT !.root = r.root],
         page |-> [r.page EXCEPT ![r.root].color = MP_BLACK]])

\* the walk of mp_pool_tree_find from node
RECURSIVE PoolWalk(_, _, _)
PoolWalk(pg, node, c) ==
    IF node = NULL THEN NULL
    ELSE IF c[1] = node THEN node
    ELSE With(pg[node].sides[(IF pg[node].data < ChunkData(pg, c) THEN 1 ELSE 0) + 1],
              LAMBDA n : PoolWalk(pg, n, c))

\* the page that owns chunk c, or NULL; the walk starts at pool->head
mp_pool_tree_find(pl, pg, c) == PoolWalk(pg, pl.head, c)

\* mp_pool_get linking the new descriptor before it looks at what
\* mp_page_init returned
mp_pool_get_publish(pl, pg, mem, data, junk) ==
    LET fresh == IF pl.head = NULL THEN TRUE ELSE mp_page_full(pg[pl.head])
        p     == IF fresh THEN Len(pg) + 1 ELSE pl.head
    IN  IF fresh /\ ~mem
        THEN [pool |-> pl, page |-> pg, chunk |-> NoChunk, scrap |-> "none"]
        ELSE
        With(IF fresh THEN Append(pg, mp_page_init(data, junk)) ELSE pg, LAMBDA g0 :
        With(IF fresh THEN mp_pool_tree_insert(pl, g0, p)
                      ELSE [pool |-> pl, page |-> pg], LAMBDA t :
        With(IF fresh THEN mp_pool_list_insert(t.pool, t.page, p) ELSE t, LAMBDA l :
        IF fresh /\ data = MAP_FAILED
        THEN [pool |-> l.pool, page |-> l.page, chunk |-> NoChunk, scrap |-> "live"]
        ELSE
        With(mp_page_get_new(l.page[p]), LAMBDA r :
        With([l.page EXCEPT ![p] = r[2]], LAMBDA g :
            [pool  |-> IF mp_page_full(g[p])
                       THEN mp_pool_list_rotate(l.pool, g) ELSE l.pool,
             page  |-> g,
             chunk |-> IF r[1] = UINT16_MAX THEN NoChunk ELSE <<p, r[1]>>,
             scrap |-> IF r[1] = UINT16_MAX THEN "live" ELSE "none"])))))

\* mp_pool_get, where mem tells whether malloc succeeds and data is what
\* mmap returns (both matter only when a page is created):
\* [pool, page, chunk, scrap], chunk = NoChunk when the call returns NULL;
\* scrap is what "if (!chunk && page) free(page)" has freed: nothing, a
\* descriptor that was never linked, or one that is linked ("live")
mp_pool_get(pl, pg, mem, data, junk) ==
    LET hd    == pl.head
        fresh == IF pl.head = NULL THEN TRUE ELSE mp_page_full(pg[pl.head])
        p     == IF fresh THEN Len(pg) + 1 ELSE pl.head
    IN  IF fresh /\ (~mem \/ data = MAP_FAILED)
        THEN [pool |-> pl, page |-> pg, chunk |-> NoChunk,
              scrap |-> IF mem THEN "freed" ELSE "none"]
        ELSE
        With(IF fresh THEN Append(pg, mp_page_init(data, junk)) ELSE pg, LAMBDA g0 :
        With(IF fresh THEN mp_pool_tree_insert(pl, g0, p)
                      ELSE [pool |-> pl, page |-> pg], LAMBDA t :
        With(IF fresh THEN mp_pool_list_insert(t.pool, t.page, p) ELSE t, LAMBDA l :
        With(mp_page_get_new(l.page[p]), LAMBDA r :
        With([l.page EXCEPT ![p] = r[2]], LAMBDA g :
            [pool  |-> IF mp_page_full(g[p])
                       THEN mp_pool_list_rotate(l.pool, g) ELSE l.pool,
             page  |-> g,
             chunk |-> IF r[1] = UINT16_MAX THEN NoChunk ELSE <<p, r[1]>>,
             scrap |-> IF r[1] = UINT16_MAX THEN "live" ELSE "none"])))))

\* mp_pool_ret of chunk c: [pool, page, fault].  When the lookup returns
\* NULL, mp_page_ret reads NULL->free: the process dies of SIGSEGV.
mp_pool_ret(pl, pg, c) ==
    With(mp_pool_tree_find(pl, pg, c), LAMBDA p :
        IF p = NULL
        THEN [pool |-> pl, page |-> pg, fault |-> "segv"]
        ELSE With([pg EXCEPT ![p] = mp_page_ret(pg[p], c[2])], LAMBDA g :
             With(mp_pool_list_remove(pl, g, p), LAMBDA r :
             With(mp_pool_list_insert(r.pool, r.page, p), LAMBDA i :
                 [pool |-> i.pool, page |-> i.page, fault |-> "none"]))))

\* the loop of mp_pool_free from page p on; n[q] counts how often page q was
\* unmapped and its descriptor freed.  The list is circular: after the last
\* page the loop is back at the first one, whose descriptor it has freed,
\* and reads nextp and data in it.  What the freed memory gives is for junk
\* to say: the old content ("stale": the page is unmapped and freed a second
\* time) or no memory at all ("wild": SIGSEGV).
RECURSIVE PoolFreeLoop(_, _, _, _)
PoolFreeLoop(pg, p, n, junk) ==
    IF p = NULL THEN [unmapped |-> n, fault |-> "none"]
    ELSE IF n[p] > 0
    THEN (IF junk = "stale"
          THEN [unmapped |-> [n EXCEPT ![p] = @ + 1], fault |-> "double_free"]
          ELSE [unmapped |-> n, fault |-> "segv"])
    ELSE With(<<pg[p].nextp, [n EXCEPT ![p] = @ + 1]>>, LAMBDA a :
              PoolFreeLoop(pg, a[1], a[2], junk))

\* mp_pool_free: [unmapped, fault]
mp_pool_free(pl, pg, junk) ==
    PoolFreeLoop(pg, pl.head, [q \in 1 .. Len(pg) |-> 0], junk)

(***************************************************************************)
(* mp_matrix: the index of a matrix, a red/black tree of chunk descriptors *)
(* keyed by packed offset, with a one-entry lookup cache (find, offset)    *)
(* and the path stack (pos, stack, sides) that find leaves for insert and  *)
(* remove.  A chunk descriptor is a small natural, NULL is 0.  The C       *)
(* arrays stack[32], sides[32] and chunk->sides[2] are functions on their  *)
(* 0-based index sets.                                                     *)
(***************************************************************************)
\* bits of a 64-bit word and of a 32-bit coordinate, scaled with the bounds
WordBits == ByteBits * WORD
CoordBits == WordBits \div 2

\* the all-ones offset word the code stores as "no cached offset"
UINT64_MAX == 2^WordBits - 1

Chunks == 1 .. MaxChunks
Slots == 0 .. (StackSlots - 1)

\* chunk->opos.pos of descriptor c, (y << 32) | x: the tiles of a matrix
\* two tiles wide, row by row
Offset(c) == ((c - 1) \div 2) * 2^CoordBits + ((c - 1) % 2)

\* the offsets rb_tree_find is called with: those of the chunks, the tile
\* after the last one, and the all-ones word
Queries == { Offset(c) : c \in 1 .. (MaxChunks + 1) } \cup {UINT64_MAX}

mp_coffs_cmp(a, b) == (IF a > b THEN 1 ELSE 0) - (IF a < b THEN 1 ELSE 0)

\* mp_tree_init writes root, find and offset; pos and the two arrays keep
\* what the memory held
mp_tree_init(pos) ==
    [root |-> NULL, find |-> NULL, offset |-> UINT64_MAX, pos |-> pos,
     stack |-> [i \in Slots |-> Unwritten],
     sides |-> [i \in Slots |-> Unwritten]]

SetSide(ch, n, s, v) == [ch EXCEPT ![n].sides[s] = v]

SetColor(ch, n, v) == [ch EXCEPT ![n].color = v]

\* n && n->color == MP_RED
IsRed(ch, n) == IF n = NULL THEN FALSE ELSE ch[n].color = MP_RED

\* the link that holds the node at level i of the path takes x: the root
\* pointer at level 0, else a side of the node one level up
Relink(t, ch, i, x) ==
    IF i = 0 THEN [tree |-> [t EXCEPT !.root = x], chunk |-> ch]
    ELSE [tree |-> t, chunk |-> SetSide(ch, t.stack[i - 1], t.sides[i - 1], x)]

\* the walk of rb_tree_find from node; "overrun" when the path needs a
\* slot past the end of stack[]
RECURSIVE FindWalk(_, _, _, _)
FindWalk(t, ch, node, off) ==
    IF node = NULL
    THEN [tree |-> [t EXCEPT !.find = NULL], node |-> NULL, fault |-> "none"]
    ELSE IF mp_coffs_cmp(Offset(node), off) = 0
    THEN [tree |-> [t EXCEPT !.find = node], node |-> node, fault |-> "none"]
    ELSE IF t.pos + 1 >= StackSlots
    THEN [tree |-> t, node |-> NULL, fault |-> "overrun"]
    ELSE With(IF mp_coffs_cmp(Offset(node), off) < 0 THEN 1 ELSE 0, LAMBDA s :
         With(<<[t EXCEPT !.pos = @ + 1, !.stack[t.pos + 1] = node,
                          !.sides[t.pos + 1] = s],
                ch[node].sides[s]>>, LAMBDA a :
              FindWalk(a[1], ch, a[2], off)))

rb_tree_find(t, ch, off) ==
    IF (IF t.find = NULL THEN FALSE ELSE mp_coffs_cmp(t.offset, off) = 0)
    THEN [tree |-> t, node |-> t.find, fault |-> "none"]
    ELSE With([t EXCEPT !.pos = -1, !.offset = off], LAMBDA t1 :
              FindWalk(t1, ch, t1.root, off))

\* the lookup that opens rb_tree_insert and rb_tree_remove: the cached node
\* when its offset is the wanted one, else rb_tree_find
FindOrCached(t, ch, off) ==
    IF (IF t.find = NULL THEN TRUE
        ELSE mp_coffs_cmp(Offset(t.find), off) # 0)
    THEN rb_tree_find(t, ch, off)
    ELSE [tree |-> t, node |-> t.find, fault |-> "none"]

\* zig-zag: the parent x is rotated under its child on the inner side
InsertZigZag(ch, g, x, side) ==
    With(ch[x].sides[1 - side], LAMBDA y :
         [chunk |-> [ch EXCEPT ![x].sides[1 - side] = ch[y].sides[side],
                               ![y].sides[side] = x,
                               ![g].sides[side] = y],
          x |-> y])

\* the grandparent g is recoloured red and rotated under the black x
InsertRotate(ch, g, x, side) ==
    [ch EXCEPT ![g].color = MP_RED,
               ![x].color = MP_BLACK,
               ![g].sides[side] = ch[x].sides[1 - side],
               ![x].sides[1 - side] = g]

\* the loop of rb_tree_insert_optimize, from its test
RECURSIVE InsertLoop(_, _)
InsertLoop(t0, ch) ==
    With([t0 EXCEPT !.pos = @ - 1], LAMBDA t :
    IF t.pos < 0 THEN [tree |-> t, chunk |-> ch]
    ELSE With(<<t.sides[t.pos], t.stack[t.pos], t.stack[t.pos + 1]>>, LAMBDA v :
         With(ch[v[2]].sides[1 - v[1]], LAMBDA y :
         IF ch[v[3]].color = MP_BLACK THEN [tree |-> t, chunk |-> ch]
         ELSE IF IsRed(ch, y)
         THEN With(<<[t EXCEPT !.pos = @ - 1],
                     [ch EXCEPT ![v[3]].color = MP_BLACK,
                                ![y].color = MP_BLACK,
                                ![v[2]].color = MP_RED]>>, LAMBDA a :
                   InsertLoop(a[1], a[2]))
         ELSE With(IF v[1] = 1 - t.sides[t.pos + 1]
                   THEN InsertZigZag(ch, v[2], v[3], v[1])
                   ELSE [chunk |-> ch, x |-> v[3]], LAMBDA z :
              With(InsertRotate(z.chunk, v[2], z.x, v[1]), LAMBDA c2 :
                   Relink(t, c2, t.pos, z.x))))))

\* rb_tree_insert_optimize without the last line, which makes the root black
rb_tree_insert_optimize_red(t, ch) ==
    With(InsertLoop(t, ch), LAMBDA m : [tree |-> m.tree, chunk |-> m.chunk])

rb_tree_insert_optimize(t, ch) ==
    With(InsertLoop(t, ch), LAMBDA m :
         [tree |-> m.tree,
          chunk |-> IF m.tree.root # NULL
                    THEN SetColor(m.chunk, m.tree.root, MP_BLACK)
                    ELSE m.chunk])

rb_tree_insert(t, ch, c) ==
    With(FindOrCached(t, ch, Offset(c)), LAMBDA r :
    IF r.node # NULL \/ r.fault # "none"
    THEN [tree |-> r.tree, chunk |-> ch, fault |-> r.fault]
    ELSE With([r.tree EXCEPT !.offset = UINT64_MAX], LAMBDA t1 :
         With([ch EXCEPT ![c] = [sides |-> [s \in {0, 1} |-> NULL],
                                 color |-> MP_RED]], LAMBDA c1 :
         With(IF t1.pos = -1
              THEN [tree |-> [t1 EXCEPT !.root = c], chunk |-> c1]
              ELSE [tree |-> t1,
                    chunk |-> SetSide(c1, t1.stack[t1.pos], t1.sides[t1.pos], c)],
              LAMBDA m :
         With(rb_tree_insert_optimize(m.tree, m.chunk), LAMBDA o :
              [tree |-> o.tree, chunk |-> o.chunk, fault |-> "none"])))))

\* a red sibling s is recoloured and rotated above the parent p, which goes
\* one level down the path; the new sibling is returned as s
RemoveRedSibling(t, ch, p, s, side) ==
    With([ch EXCEPT ![s].color = MP_BLACK, ![p].color = MP_RED], LAMBDA c1 :
    With(Relink(t, c1, t.pos, s), LAMBDA m :
    With([m.chunk EXCEPT ![p].sides[1 - side] = m.chunk[s].sides[side],
                         ![s].sides[side] = p], LAMBDA c2 :
         [tree |-> [m.tree EXCEPT !.stack[t.pos] = s,
                                  !.sides[t.pos + 1] = side,
                                  !.stack[t.pos + 1] = p,
                                  !.pos = t.pos + 1],
          chunk |-> c2,
          s |-> c2[p].sides[1 - side]])))

\* the far nephew is black: the near nephew y is rotated above s and
\* becomes the sibling; y is dereferenced without a test
RemoveNearRed(ch, p, s, side) ==
    With(ch[s].sides[side], LAMBDA y :
         IF y = NULL THEN [chunk |-> ch, s |-> s, fault |-> "segv"]
         ELSE [chunk |-> [ch EXCEPT ![y].color = MP_BLACK,
                                    ![s].color = MP_RED,
                                    ![s].sides[side] = ch[y].sides[1 - side],
                                    ![y].sides[1 - side] = s,
                                    ![p].sides[1 - side] = y],
               s |-> y, fault |-> "none"])

\* RemoveFarRed leaving the far nephew's colour as it is
RemoveFarRed_keep(t, ch, p, s, side) ==
    With([ch EXCEPT ![s].color = ch[p].color, ![p].color = MP_BLACK], LAMBDA c2 :
    With(Relink(t, c2, t.pos, s), LAMBDA m :
         [tree |-> m.tree,
          chunk |-> [m.chunk EXCEPT ![p].sides[1 - side] = m.chunk[s].sides[side],
                                    ![s].sides[side] = p],
          fault |-> "none"]))

\* the sibling s takes the parent's colour and is rotated above it
RemoveFarRed(t, ch, p, s, side) ==
    With([ch EXCEPT ![s].color = ch[p].color, ![p].color = MP_BLACK], LAMBDA c1 :
    With(IF c1[s].sides[1 - side] # NULL
         THEN SetColor(c1, c1[s].sides[1 - side], MP_BLACK)
         ELSE c1, LAMBDA c2 :
    With(Relink(t, c2, t.pos, s), LAMBDA m :
         [tree |-> m.tree,
          chunk |-> [m.chunk EXCEPT ![p].sides[1 - side] = m.chunk[s].sides[side],
                                    ![s].sides[side] = p],
          fault |-> "none"])))

RECURSIVE rb_tree_remove_optimize(_, _)
rb_tree_remove_optimize(t, ch) ==
    IF t.pos < 0 THEN [tree |-> t, chunk |-> ch, fault |-> "none"]
    ELSE With(<<t.sides[t.pos], t.stack[t.pos]>>, LAMBDA v :
         With(<<ch[v[2]].sides[v[1]], ch[v[2]].sides[1 - v[1]]>>, LAMBDA k :
         IF IsRed(ch, k[1])
         THEN [tree |-> t, chunk |-> SetColor(ch, k[1], MP_BLACK), fault |-> "none"]
         ELSE With(IF IsRed(ch, k[2])
                   THEN RemoveRedSibling(t, ch, v[2], k[2], v[1])
                   ELSE [tree |-> t, chunk |-> ch, s |-> k[2]], LAMBDA m :
              IF m.s = NULL
              THEN [tree |-> m.tree, chunk |-> m.chunk, fault |-> "none"]
              ELSE IF ~IsRed(m.chunk, m.chunk[m.s].sides[0])
                      /\ ~IsRed(m.chunk, m.chunk[m.s].sides[1])
              THEN With(<<[m.tree EXCEPT !.pos = @ - 1],
                          SetColor(m.chunk, m.s, MP_RED)>>, LAMBDA a :
                        rb_tree_remove_optimize(a[1], a[2]))
              ELSE With(IF ~IsRed(m.chunk, m.chunk[m.s].sides[1 - v[1]])
                        THEN RemoveNearRed(m.chunk, v[2], m.s, v[1])
                        ELSE [chunk |-> m.chunk, s |-> m.s, fault |-> "none"],
                        LAMBDA n :
                   IF n.fault # "none"
                   THEN [tree |-> m.tree, chunk |-> n.chunk, fault |-> n.fault]
                   ELSE RemoveFarRed(m.tree, n.chunk, v[2], n.s, v[1])))))

\* the descent to the in-order predecessor: right links from target, each
\* node passed pushed on the path
RECURSIVE RemoveDescend(_, _, _)
RemoveDescend(t, ch, target) ==
    IF ch[target].sides[1] = NULL THEN [tree |-> t, target |-> target]
    ELSE With(<<[t EXCEPT !.pos = @ + 1, !.stack[t.pos + 1] = target,
                          !.sides[t.pos + 1] = 1],
                ch[target].sides[1]>>, LAMBDA a :
              RemoveDescend(a[1], ch, a[2]))

\* a node with two children changes place with its in-order predecessor
RemoveSwap(t, ch, node) ==
    With(t.pos, LAMBDA pos :
    With(RemoveDescend([t EXCEPT !.pos = pos + 1, !.stack[pos + 1] = node,
                                 !.sides[pos + 1] = 0],
                       ch, ch[node].sides[0]), LAMBDA d :
    With(IF pos = -1
         THEN [tree |-> [d.tree EXCEPT !.root = d.target], chunk |-> ch]
         ELSE [tree |-> d.tree,
               chunk |-> SetSide(ch, d.tree.stack[pos], d.tree.sides[pos], d.target)],
         LAMBDA m :
    With([m.chunk EXCEPT ![d.target].color = m.chunk[node].color,
                         ![node].color = m.chunk[d.target].color], LAMBDA c1 :
    With([c1 EXCEPT ![d.target].sides[1] = c1[node].sides[1],
                    ![node].sides[1] = NULL], LAMBDA c2 :
    With(c2[node].sides[0], LAMBDA tmp :
    With([c2 EXCEPT ![node].sides[0] = c2[d.target].sides[0]], LAMBDA c3 :
         [tree |-> [m.tree EXCEPT !.stack[pos + 1] = d.target],
          chunk |-> [c3 EXCEPT ![d.target].sides[0] = tmp]])))))))

\* junk is what the byte before sides[0] holds, read when the node is the
\* root (pos = -1); a side that is neither 0 nor 1 indexes past sides[2]
rb_tree_remove(t, ch, c, junk) ==
    IF c = NULL THEN [tree |-> t, chunk |-> ch, fault |-> "none"]
    ELSE
    With(FindOrCached(t, ch, Offset(c)), LAMBDA r :
    IF r.node = NULL \/ r.fault # "none"
    THEN [tree |-> r.tree, chunk |-> ch, fault |-> r.fault]
    ELSE With([r.tree EXCEPT !.offset = UINT64_MAX], LAMBDA t1 :
         With(IF t1.pos = -1 THEN junk ELSE t1.sides[t1.pos], LAMBDA side :
         With(IF ch[r.node].sides[0] # NULL /\ ch[r.node].sides[1] # NULL
              THEN RemoveSwap(t1, ch, r.node)
              ELSE [tree |-> t1, chunk |-> ch], LAMBDA m :
         With(IF m.chunk[r.node].sides[0] # NULL
              THEN m.chunk[r.node].sides[0]
              ELSE m.chunk[r.node].sides[1], LAMBDA child :
         IF m.tree.pos # -1 /\ side \notin {0, 1}
         THEN [tree |-> m.tree, chunk |-> m.chunk, fault |-> "oob"]
         ELSE With(IF m.tree.pos = -1
                   THEN [tree |-> [m.tree EXCEPT !.root = child], chunk |-> m.chunk]
                   ELSE [tree |-> m.tree,
                         chunk |-> SetSide(m.chunk, m.tree.stack[m.tree.pos],
                                           side, child)], LAMBDA u :
              IF u.chunk[r.node].color = MP_BLACK
              THEN rb_tree_remove_optimize(u.tree, u.chunk)
              ELSE [tree |-> u.tree, chunk |-> u.chunk, fault |-> "none"]))))))

\* the chunks met from node n down, to depth d, each as often as it is met
RECURSIVE IndexCount(_, _, _)
IndexCount(ch, n, d) ==
    IF n = NULL THEN 0
    ELSE IF d = 0 THEN MaxChunks + 1
    ELSE With(<<IndexCount(ch, ch[n].sides[0], d - 1),
                IndexCount(ch, ch[n].sides[1], d - 1)>>, LAMBDA k :
              IF 1 + k[1] + k[2] > MaxChunks THEN MaxChunks + 1
              ELSE 1 + k[1] + k[2])

RECURSIVE IndexFrom(_, _, _)
IndexFrom(ch, n, d) ==
    IF n = NULL \/ d = 0 THEN {}
    ELSE With(<<IndexFrom(ch, ch[n].sides[0], d - 1),
                IndexFrom(ch, ch[n].sides[1], d - 1)>>, LAMBDA k :
              {n} \cup k[1] \cup k[2])

\* the links from the root form a tree: no chunk is met twice
IsTree(t, ch) ==
    With(IndexCount(ch, t.root, MaxChunks + 1), LAMBDA k :
         k <= MaxChunks /\ k = Cardinality(IndexFrom(ch, t.root, MaxChunks + 1)))

\* the chunk of the pool behind descriptor c of the matrix, and back: the
\* descriptors are the elements of the chunk arrays of the pages, page by
\* page
PoolChunk(c) == <<((c - 1) \div PAGE_SIZE) + 1, (c - 1) % PAGE_SIZE>>

Descriptor(pc) == (pc[1] - 1) * PAGE_SIZE + pc[2] + 1

\* the inner loop of mp_tree_free: push node and its left descendants;
\* a = [pos, stack, fault], "overrun" when stack[] has no slot left
RECURSIVE TreeFreeDescend(_, _, _)
TreeFreeDescend(ch, node, a) ==
    IF node = NULL THEN a
    ELSE IF a.pos + 1 >= StackSlots THEN [a EXCEPT !.fault = "overrun"]
    ELSE With(<<ch[node].sides[0],
                [a EXCEPT !.pos = @ + 1, !.stack[a.pos + 1] = node]>>, LAMBDA n :
              TreeFreeDescend(ch, n[1], n[2]))

\* the outer loop of mp_tree_free from node on;
\* st = [pos, stack, pool, page, rets, fault], rets the chunks handed to
\* mp_pool_ret so far.  The right link of a node is read before the node is
\* returned.
RECURSIVE TreeFreeLoop(_, _, _)
TreeFreeLoop(ch, node, st) ==
    With(TreeFreeDescend(ch, node, [pos |-> st.pos, stack |-> st.stack,
                                    fault |-> "none"]), LAMBDA a :
        IF a.fault # "none" \/ a.pos = -1
        THEN [st EXCEPT !.pos = a.pos, !.stack = a.stack, !.fault = a.fault]
        ELSE With(a.stack[a.pos], LAMBDA n :
             With(<<ch[n].sides[1], mp_pool_ret(st.pool, st.page, PoolChunk(n))>>,
                  LAMBDA r :
                 IF r[2].fault # "none"
                 THEN [st EXCEPT !.pos = a.pos - 1, !.stack = a.stack,
                                 !.rets = Append(@, n), !.fault = r[2].fault]
                 ELSE TreeFreeLoop(ch, r[1],
                          [pos |-> a.pos - 1, stack |-> a.stack,
                           pool |-> r[2].pool, page |-> r[2].page,
                           rets |-> Append(st.rets, n), fault |-> "none"]))))

\* mp_tree_free, which is all of mp_matrix_free: [tree, pool, page, rets,
\* fault].  Of the tree it writes stack[] only; root, find and offset keep
\* their values.
mp_tree_free(t, ch, pl, pg) ==
    With(TreeFreeLoop(ch, t.root, [pos |-> -1, stack |-> t.stack, pool |-> pl,
                                   page |-> pg, rets |-> <<>>, fault |-> "none"]),
         LAMBDA st :
             [tree |-> [t EXCEPT !.stack = st.stack], pool |-> st.pool,
              page |-> st.page, rets |-> st.rets, fault |-> st.fault])

\* chunk descriptors as the pool hands them out: nothing has written their
\* tree fields
FreshChunks ==
    [c \in Chunks |-> [sides |-> [s \in {0, 1} |-> Unwritten], color |-> Unwritten]]

\* the index variables while the pool or a page is what runs
IndexIdle ==
    /\ tree = mp_tree_init(Unwritten)
    /\ chunk = FreshChunks
    /\ present = {}
    /\ calls = 0
    /\ rets = <<>>

(***************************************************************************)
(* mp_matrix: the backing file of a matrix and its transfer over a stream. *)
(* Bytes are naturals below 2^ByteBits and a 64-bit word is WORD of them,  *)
(* so that the arithmetic of the source wraps in the model as it does in   *)
(* the program.  sys is what the kernel holds: the two files, the offsets  *)
(* of their descriptors, the bytes in flight on the stream, errno, and the *)
(* plan: what the next system calls will do, in order, "ok" once the plan  *)
(* is used up.                                                             *)
(***************************************************************************)
ByteVals == 2^ByteBits
WordVals == 2^WordBits

\* sizeof(mp_msize): two 64-bit words
HEADER == 2 * WORD

Min(a, b) == IF a < b THEN a ELSE b

Max(a, b) == IF a > b THEN a ELSE b

\* the bytes of word v, most significant first
BE(v) == [i \in 1 .. WORD |-> (v \div ByteVals^(WORD - i)) % ByteVals]

\* the word whose bytes, most significant first, are b
RECURSIVE FromBE(_)
FromBE(b) ==
    IF Len(b) = 0 THEN 0
    ELSE FromBE(SubSeq(b, 1, Len(b) - 1)) * ByteVals + b[Len(b)]

Reverse(b) == [i \in 1 .. Len(b) |-> b[Len(b) + 1 - i]]

\* the bytes word v occupies in memory on a host of byte order e, and the
\* word that bytes b in memory are
Mem(v, e) == IF e = "big" THEN BE(v) ELSE Reverse(BE(v))

Val(b, e) == IF e = "big" THEN FromBE(b) ELSE FromBE(Reverse(b))

bswap(v) == FromBE(Reverse(BE(v)))

htobe64(v, e) == IF e = "big" THEN v ELSE bswap(v)

be64toh(v, e) == IF e = "big" THEN v ELSE bswap(v)

Zeros(n) == [i \in 1 .. n |-> 0]

\* file content fl with bytes b written at offset off, a hole reading 0
Overwrite(fl, off, b) ==
    [i \in 1 .. Max(Len(fl), off + Len(b)) |->
        IF off < i /\ i <= off + Len(b) THEN b[i - off]
        ELSE IF i <= Len(fl) THEN fl[i] ELSE 0]

\* what the next system call does, and the kernel once it has done it
Outcome(s) == IF s.plan = <<>> THEN "ok" ELSE Head(s.plan)

Rest(s) == [s EXCEPT !.plan = IF @ = <<>> THEN <<>> ELSE Tail(@)]

Failed(o) == o \in {"eintr", "eagain", "err"}

Errno(o) == IF o = "eintr" THEN "EINTR" ELSE IF o = "eagain" THEN "EAGAIN" ELSE "EIO"

\* a system call that fails: -1, errno set
Fail(s) ==
    [sys |-> [Rest(s) EXCEPT !.errno = Errno(Outcome(s))], ret |-> -1, data |-> <<>>]

\* bytes a transfer of up to n moves when the plan says o
Count(o, n) == IF o = "short" THEN 1 ELSE n

\* read(A, buf, n) and splice(A, ...) on the stream: 0 at end of stream;
\* the call never returns when the stream is empty and its writer has not
\* closed it
sys_read(s, n) ==
    IF Failed(Outcome(s)) THEN Fail(s)
    ELSE IF s.wire = <<>>
    THEN [sys |-> Rest(s), ret |-> IF s.wclosed THEN 0 ELSE Never, data |-> <<>>]
    ELSE With(Min(Count(Outcome(s), n), Len(s.wire)), LAMBDA k :
         [sys |-> [Rest(s) EXCEPT !.wire = SubSeq(@, k + 1, Len(@))],
          ret |-> k,
          data |-> SubSeq(s.wire, 1, k)])

\* write(A, b, Len(b)) and splice(..., A) on the stream
sys_write(s, b) ==
    IF Failed(Outcome(s)) THEN Fail(s)
    ELSE With(Count(Outcome(s), Len(b)), LAMBDA k :
         [sys |-> [Rest(s) EXCEPT !.wire = @ \o SubSeq(b, 1, k)],
          ret |-> k, data |-> <<>>])

\* ftruncate(f, len); len is an off_t, negative from half the word range
sys_ftruncate(s, f, len) ==
    IF len >= WordVals \div 2
    THEN [sys |-> [s EXCEPT !.errno = "EINVAL"], ret |-> -1, data |-> <<>>]
    ELSE IF Failed(Outcome(s)) THEN Fail(s)
    ELSE [sys |-> [Rest(s) EXCEPT !.file[f] =
                      IF len <= Len(@) THEN SubSeq(@, 1, len)
                      ELSE @ \o Zeros(len - Len(@))],
          ret |-> 0, data |-> <<>>]

\* pwrite(f, b, Len(b), off)
sys_pwrite(s, f, b, off) ==
    IF Failed(Outcome(s)) THEN Fail(s)
    ELSE With(Count(Outcome(s), Len(b)), LAMBDA k :
         [sys |-> [Rest(s) EXCEPT !.file[f] = Overwrite(@, off, SubSeq(b, 1, k))],
          ret |-> k, data |-> <<>>])

\* pread(f, buf, n, off)
sys_pread(s, f, n, off) ==
    IF Failed(Outcome(s)) THEN Fail(s)
    ELSE With(Min(Count(Outcome(s), n), Max(Len(s.file[f]) - off, 0)), LAMBDA k :
         [sys |-> Rest(s), ret |-> k, data |-> SubSeq(s.file[f], off + 1, off + k)])

\* pipe(pipefd)
sys_pipe(s) ==
    IF Failed(Outcome(s)) THEN Fail(s)
    ELSE [sys |-> Rest(s), ret |-> 0, data |-> <<>>]

\* splice(fd, NULL, pipe, NULL, n, ...): from the stream, or from a file at
\* the offset of its descriptor, which advances
splice_in(s, fd, n) ==
    IF fd = NoFd
    THEN [sys |-> [s EXCEPT !.errno = "EBADF"], ret |-> -1, data |-> <<>>]
    ELSE IF fd = StreamA THEN sys_read(s, n)
    ELSE IF Failed(Outcome(s)) THEN Fail(s)
    ELSE With(Min(Count(Outcome(s), n), Max(Len(s.file[fd]) - s.fpos[fd], 0)),
              LAMBDA k :
         [sys |-> [Rest(s) EXCEPT !.fpos[fd] = @ + k],
          ret |-> k,
          data |-> SubSeq(s.file[fd], s.fpos[fd] + 1, s.fpos[fd] + k)])

\* splice(pipe, NULL, fd, NULL, Len(b), ...): to the stream, or to a file at
\* the offset of its descriptor, which advances
splice_out(s, fd, b) ==
    IF fd = NoFd
    THEN [sys |-> [s EXCEPT !.errno = "EBADF"], ret |-> -1, data |-> <<>>]
    ELSE IF fd = StreamA THEN sys_write(s, b)
    ELSE IF Failed(Outcome(s)) THEN Fail(s)
    ELSE With(Count(Outcome(s), Len(b)), LAMBDA k :
         [sys |-> [Rest(s) EXCEPT !.file[fd] = Overwrite(@, s.fpos[fd], SubSeq(b, 1, k)),
                                  !.fpos[fd] = @ + k],
          ret |-> k, data |-> <<>>])

\* do { n = splice(...) } while (n == -1 && (errno == EINTR || errno == EAGAIN))
RECURSIVE SpliceIn(_, _, _)
SpliceIn(s, fd, n) ==
    With(splice_in(s, fd, n), LAMBDA r :
         IF r.ret = -1 /\ r.sys.errno \in {"EINTR", "EAGAIN"}
         THEN SpliceIn(r.sys, fd, n)
         ELSE r)

RECURSIVE SpliceOut(_, _, _)
SpliceOut(s, fd, b) ==
    With(splice_out(s, fd, b), LAMBDA r :
         IF r.ret = -1 /\ r.sys.errno \in {"EINTR", "EAGAIN"}
         THEN SpliceOut(r.sys, fd, b)
         ELSE r)

\* the inner loop of mp_matrix_splice: the n bytes in the pipe go to fd_t
RECURSIVE SpliceDrain(_, _, _)
SpliceDrain(s, fd_t, b) ==
    IF Len(b) = 0 THEN [sys |-> s, ret |-> 0]
    ELSE With(SpliceOut(s, fd_t, b), LAMBDA m :
         IF m.ret < 0 THEN [sys |-> m.sys, ret |-> -1]
         ELSE SpliceDrain(m.sys, fd_t, SubSeq(b, m.ret + 1, Len(b))))

\* the outer loop of mp_matrix_splice
RECURSIVE SpliceLoop(_, _, _, _)
SpliceLoop(s, fd_f, fd_t, remain) ==
    IF remain = 0 THEN [sys |-> s, ret |-> 0]
    ELSE With(SpliceIn(s, fd_f, Min(remain, CHUNK_BYTES)), LAMBDA r :
         IF r.ret = 0 THEN [sys |-> r.sys, ret |-> 0]
         ELSE IF r.ret = Never THEN [sys |-> r.sys, ret |-> Never]
         ELSE IF r.ret < 0 THEN [sys |-> r.sys, ret |-> -1]
         ELSE With(SpliceDrain(r.sys, fd_t, r.data), LAMBDA d :
              IF d.ret < 0 THEN d
              ELSE SpliceLoop(d.sys, fd_f, fd_t, remain - r.ret)))

mp_matrix_splice(s, fd_f, fd_t, size) ==
    With(sys_pipe(s), LAMBDA p :
         IF p.ret = -1 THEN [sys |-> p.sys, ret |-> -1]
         ELSE SpliceLoop(p.sys, fd_f, fd_t,
                         (((size[1] * size[2]) % WordVals) * WORD) % WordVals))

\* mp_matrix_set_size writing the header with write, at the position of
\* the fd, not with pwrite at offset 0
mp_matrix_set_size_write(s, mx, size, e) ==
    IF mx.fd = NoFd THEN [sys |-> s, matx |-> mx, ret |-> -1]
    ELSE With((HEADER + ((((size[1] * size[2]) % WordVals) * WORD) % WordVals))
              % WordVals, LAMBDA total_size :
         With(sys_ftruncate(s, mx.fd, total_size), LAMBDA t :
         IF t.ret = -1 THEN [sys |-> t.sys, matx |-> mx, ret |-> -1]
         ELSE With(splice_out(t.sys, mx.fd, Mem(size[1], e) \o Mem(size[2], e)),
                   LAMBDA p :
              IF p.ret # HEADER THEN [sys |-> p.sys, matx |-> mx, ret |-> -1]
              ELSE [sys |-> p.sys, matx |-> [mx EXCEPT !.size = size], ret |-> 0])))

\* mx is the mp_matrix: [size, fd]; e the byte order of the host
mp_matrix_set_size(s, mx, size, e) ==
    IF mx.fd = NoFd THEN [sys |-> s, matx |-> mx, ret |-> -1]
    ELSE With((HEADER + ((((size[1] * size[2]) % WordVals) * WORD) % WordVals))
              % WordVals, LAMBDA total_size :
         With(sys_ftruncate(s, mx.fd, total_size), LAMBDA t :
         IF t.ret = -1 THEN [sys |-> t.sys, matx |-> mx, ret |-> -1]
         ELSE With(sys_pwrite(t.sys, mx.fd, Mem(size[1], e) \o Mem(size[2], e), 0),
                   LAMBDA p :
              IF p.ret # HEADER THEN [sys |-> p.sys, matx |-> mx, ret |-> -1]
              ELSE [sys |-> p.sys, matx |-> [mx EXCEPT !.size = size], ret |-> 0])))

\* the definition of mp_matrix_set_size in mp_matrix.h: it empties the file,
\* extends it to the new length, writes no header, and clears the size when
\* a truncation fails
mp_matrix_set_size_h(s, mx, size) ==
    IF mx.fd = NoFd THEN [sys |-> s, matx |-> mx, ret |-> -1]
    ELSE With((HEADER + ((((size[1] * size[2]) % WordVals) * WORD) % WordVals))
              % WordVals, LAMBDA total :
         With(sys_ftruncate(s, mx.fd, 0), LAMBDA z :
         IF z.ret = -1
         THEN [sys |-> z.sys, matx |-> [mx EXCEPT !.size = <<0, 0>>], ret |-> -1]
         ELSE With(sys_ftruncate(z.sys, mx.fd, total), LAMBDA t :
              IF t.ret = -1
              THEN [sys |-> t.sys, matx |-> [mx EXCEPT !.size = <<0, 0>>], ret |-> -1]
              ELSE [sys |-> t.sys, matx |-> [mx EXCEPT !.size = size], ret |-> 0])))

\* f is the file the path names; open fails when the plan says so
mp_matrix_set_file(s, mx, f, e) ==
    IF Failed(Outcome(s))
    THEN [sys |-> Fail(s).sys, matx |-> [mx EXCEPT !.fd = NoFd], ret |-> -1]
    ELSE With([Rest(s) EXCEPT !.fpos[f] = 0], LAMBDA o :
         With(sys_pread(o, f, HEADER, 0), LAMBDA r :
              [sys |-> r.sys,
               matx |-> [fd |-> f,
                         size |-> IF r.ret = HEADER
                                  THEN <<Val(SubSeq(r.data, 1, WORD), e),
                                         Val(SubSeq(r.data, WORD + 1, HEADER), e)>>
                                  ELSE <<0, 0>>],
               ret |-> 0]))

\* the read loop of mp_matrix_recv_msize.  A read that returns 0 leaves
\* errno as it was and the loop tests errno: at end of stream with EINTR
\* left in errno, and nothing more to come, it reads again for ever
RECURSIVE RecvHeader(_, _, _, _)
RecvHeader(s, hdr, ptr, rem) ==
    IF rem = 0 THEN [sys |-> s, hdr |-> hdr, ret |-> 0]
    ELSE With(sys_read(s, rem), LAMBDA r :
         IF r.ret = Never THEN [sys |-> r.sys, hdr |-> hdr, ret |-> Never]
         ELSE IF r.ret <= 0
         THEN (IF r.sys.errno = "EINTR"
               THEN (IF s.plan = <<>>
                     THEN [sys |-> r.sys, hdr |-> hdr, ret |-> Never]
                     ELSE RecvHeader(r.sys, hdr, ptr, rem))
               ELSE [sys |-> r.sys, hdr |-> hdr, ret |-> -1])
         ELSE With(<<Overwrite(hdr, ptr, r.data), ptr + r.ret, rem - r.ret>>,
                   LAMBDA a : RecvHeader(r.sys, a[1], a[2], a[3])))

\* hdr is what the 16 bytes of the local array hold on entry
mp_matrix_recv_msize(s, mx, fd, hdr, e) ==
    With(RecvHeader(s, hdr, 0, WORD), LAMBDA h :
         IF h.ret # 0 THEN [sys |-> h.sys, matx |-> mx, ret |-> h.ret]
         ELSE mp_matrix_set_size(h.sys, mx,
                  <<be64toh(Val(SubSeq(h.hdr, 1, WORD), e), e),
                    be64toh(Val(SubSeq(h.hdr, WORD + 1, HEADER), e), e)>>, e))

mp_matrix_recv(s, mx, fd, hdr, e) ==
    With(mp_matrix_recv_msize(s, mx, fd, hdr, e), LAMBDA r :
         IF r.ret # 0 THEN r
         ELSE With(mp_matrix_splice(r.sys, fd, r.matx.fd, r.matx.size), LAMBDA p :
                   [sys |-> p.sys, matx |-> r.matx, ret |-> p.ret]))

\* the write loop of mp_matrix_send_msize
RECURSIVE SendHeader(_, _, _, _)
SendHeader(s, hdr, ptr, rem) ==
    IF rem = 0 THEN [sys |-> s, ret |-> 0]
    ELSE With(sys_write(s, SubSeq(hdr, ptr + 1, ptr + rem)), LAMBDA r :
         IF r.ret <= 0
         THEN (IF r.sys.errno = "EINTR" THEN SendHeader(r.sys, hdr, ptr, rem)
               ELSE [sys |-> r.sys, ret |-> -1])
         ELSE SendHeader(r.sys, hdr, ptr + r.ret, rem - r.ret))

mp_matrix_send_msize(s, mx, fd, e) ==
    SendHeader(s, Mem(htobe64(mx.size[1], e), e) \o Mem(htobe64(mx.size[2], e), e),
               0, WORD)

mp_matrix_send(s, mx, fd, e) ==
    With(mp_matrix_send_msize(s, mx, fd, e), LAMBDA r :
         IF r.ret # 0 THEN r
         ELSE mp_matrix_splice(r.sys, mx.fd, fd, mx.size))

\* the matrices: M (1) is sent, M' (2) receives; matrix i has file i, which
\* its descriptor is named after
Mats == {1, 2}

\* the fields of the mp_matrix structures after mp_matrix_init, which
\* leaves size as the memory held it
FreshMatx == [i \in Mats |-> [size |-> <<Unwritten, Unwritten>>, fd |-> NoFd]]

FreshSys ==
    [plan |-> <<>>, errno |-> "0", wire |-> <<>>, wclosed |-> FALSE,
     file |-> [i \in Mats |-> <<>>], fpos |-> [i \in Mats |-> 0]]

NoSnap == [size |-> <<0, 0>>, payload |-> <<>>, declared |-> FALSE]

\* lastCall when the step to this state was no call of mp_matrix_set_size
NoCall ==
    [op |-> "none", arg |-> <<0, 0>>, ret |-> 0, calm |-> TRUE, inline |-> FALSE,
     nth |-> 0]

\* the stream variables while the pool, a page or the index is what runs
IoIdle ==
    /\ matx = FreshMatx
    /\ sys = FreshSys
    /\ status = [send |-> "none", recv |-> "none"]
    /\ endian = "little"
    /\ snap = NoSnap
    /\ env = [send |-> TRUE, recv |-> TRUE]
    /\ lastCall = NoCall

(***************************************************************************)
(* mp_chunk: the transfer of one chunk over a stream.  cbuf.data is the    *)
(* memory from the chunk's data pointer on: the CHUNK_W rows of its        *)
(* payload and the row after them, which is the first row of the next      *)
(* chunk of the page, or not mapped when cbuf.edge says so.                *)
(***************************************************************************)
\* bytes from one row of a chunk to the next, and bytes of its payload
RowBytes == CHUNK_W * WORD
ChunkLen == CHUNK_W * RowBytes

\* a read into, or a write out of, memory that is not mapped: EFAULT
Efault(s) == [sys |-> [Rest(s) EXCEPT !.errno = "EFAULT"], ret |-> -1, data |-> <<>>]

\* the while loop of mp_chunk_recv for one row: [sys, mem, ptr, ret]
RECURSIVE ChunkReadRow(_, _, _, _, _)
ChunkReadRow(s, mem, ptr, rem, edge) ==
    IF rem = 0 THEN [sys |-> s, mem |-> mem, ptr |-> ptr, ret |-> 0]
    ELSE With(sys_read(s, rem), LAMBDA k :
         With(IF k.ret > 0 /\ edge /\ ptr >= ChunkLen THEN Efault(s) ELSE k, LAMBDA r :
         IF r.ret = Never THEN [sys |-> r.sys, mem |-> mem, ptr |-> ptr, ret |-> Never]
         ELSE IF r.ret <= 0
         THEN (IF r.sys.errno = "EINTR"
               THEN (IF s.plan = <<>>
                     THEN [sys |-> r.sys, mem |-> mem, ptr |-> ptr, ret |-> Never]
                     ELSE ChunkReadRow(r.sys, mem, ptr, rem, edge))
               ELSE [sys |-> r.sys, mem |-> mem, ptr |-> ptr, ret |-> -1])
         ELSE With(<<Overwrite(mem, ptr, r.data), ptr + r.ret, rem - r.ret>>,
                   LAMBDA a : ChunkReadRow(r.sys, a[1], a[2], a[3], edge))))

\* the for loop of mp_chunk_recv from row y on
RECURSIVE ChunkRecvRows(_, _, _, _, _, _, _)
ChunkRecvRows(s, mem, ptr, y, size_x, size_y, edge) ==
    IF ~(y <= size_y) THEN [sys |-> s, mem |-> mem, ret |-> 0]
    ELSE With(ChunkReadRow(s, mem, ptr, size_x * WORD, edge), LAMBDA r :
         IF r.ret # 0 THEN [sys |-> r.sys, mem |-> r.mem, ret |-> r.ret]
         ELSE ChunkRecvRows(r.sys, r.mem, r.ptr + (CHUNK_W - size_x) * WORD,
                            y + 1, size_x, size_y, edge))

\* cb is the chunk: [size, data, edge], size as stored (dim.x, dim.y)
mp_chunk_recv(s, cb) ==
    ChunkRecvRows(s, cb.data, 0, 0, cb.size[1] + 1, cb.size[2] + 1, cb.edge)

\* the while loop of mp_chunk_send for one row: [sys, ptr, ret]
RECURSIVE ChunkWriteRow(_, _, _, _, _)
ChunkWriteRow(s, mem, ptr, rem, edge) ==
    IF rem = 0 THEN [sys |-> s, ptr |-> ptr, ret |-> 0]
    ELSE With(IF edge /\ ptr >= ChunkLen THEN Efault(s)
              ELSE sys_write(s, SubSeq(mem, ptr + 1, ptr + rem)), LAMBDA r :
         IF r.ret <= 0
         THEN (IF r.sys.errno = "EINTR" THEN ChunkWriteRow(r.sys, mem, ptr, rem, edge)
               ELSE [sys |-> r.sys, ptr |-> ptr, ret |-> -1])
         ELSE ChunkWriteRow(r.sys, mem, ptr + r.ret, rem - r.ret, edge))

\* the for loop of mp_chunk_send from row y on
RECURSIVE ChunkSendRows(_, _, _, _, _, _, _)
ChunkSendRows(s, mem, ptr, y, size_x, size_y, edge) ==
    IF ~(y <= size_y) THEN [sys |-> s, ret |-> 0]
    ELSE With(ChunkWriteRow(s, mem, ptr, size_x * WORD, edge), LAMBDA r :
         IF r.ret # 0 THEN [sys |-> r.sys, ret |-> r.ret]
         ELSE ChunkSendRows(r.sys, mem, r.ptr + (CHUNK_W - size_x) * WORD,
                            y + 1, size_x, size_y, edge))

mp_chunk_send(s, cb) ==
    ChunkSendRows(s, cb.data, 0, 0, cb.size[1] + 1, cb.size[2] + 1, cb.edge)

(***************************************************************************)
(* Scenario S1 of the specification, followed along the run: P + 1 gets,   *)
(* the chunks of the first page returned in reverse issue order, then      *)
(* 2 * P more gets.  s1.n counts the steps of the script done so far.      *)
(***************************************************************************)
S1Len == 4 * PAGE_SIZE + 1

S1Off == [on |-> FALSE, n |-> 0]

\* the call the script makes as its step number k (from 0)
S1Step(k) ==
    IF k < PAGE_SIZE + 1 THEN [op |-> "get", chunk |-> NoChunk]
    ELSE IF k < 2 * PAGE_SIZE + 1
         THEN [op |-> "ret", chunk |-> <<1, (PAGE_SIZE - 1) - (k - (PAGE_SIZE + 1))>>]
         ELSE [op |-> "get", chunk |-> NoChunk]

S1Next(call) ==
    IF s1.on /\ s1.n < S1Len /\ S1Step(s1.n) = call
    THEN [on |-> TRUE, n |-> s1.n + 1]
    ELSE S1Off

(***************************************************************************)
(* The pool under its callers                                              *)
(***************************************************************************)
\* the addresses mmap can return for n pages: regions of PAGE_SIZE chunks
Addr(n) == { a * PAGE_SIZE : a \in 1 .. n }

FreeAddr(n) == Addr(n) \ { page[p].data : p \in 1 .. Len(page) }

\* ring arrays of a fresh descriptor, in memory nobody has written
NoJunk == << [i \in Pos |-> Unwritten], [i \in Pos |-> Unwritten] >>

NeedsPage == IF pool.head = NULL THEN TRUE ELSE mp_page_full(page[pool.head])

InitPool ==
    /\ pool = [head |-> NULL, root |-> NULL, size |-> 0]
    /\ page = <<>>
    /\ held = {}
    /\ result = "ok"
    /\ twice = FALSE
    /\ fault = "none"
    /\ s1 = [on |-> TRUE, n |-> 0]
    /\ IndexIdle
    /\ IoIdle
    /\ heap = FreshHeap
    /\ ChunkIdle

\* mp_pool_get served by the head page
GetHead ==
    /\ fault = "none"
    /\ ~NeedsPage
    /\ \E r \in {mp_pool_get(pool, page, TRUE, MAP_FAILED, NoJunk)} :
           /\ pool' = r.pool
           /\ page' = r.page
           /\ heap' = [heap EXCEPT !.scrap = r.scrap]
           /\ result' = "ok"
           /\ twice' = (twice \/ r.chunk \in held)
           /\ held' = held \cup {r.chunk}
    /\ s1' = S1Next([op |-> "get", chunk |-> NoChunk])
    /\ UNCHANGED fault
    /\ UNCHANGED <<indexVars, ioVars, cbuf>>

\* mp_pool_get that maps a new page, at whatever address mmap picks
GetPage(n) ==
    /\ fault = "none"
    /\ NeedsPage
    /\ Len(page) < n
    /\ \E data \in FreeAddr(n) :
         \E r \in {mp_pool_get(pool, page, TRUE, data, NoJunk)} :
             /\ pool' = r.pool
             /\ page' = r.page
             /\ heap' = [heap EXCEPT !.scrap = r.scrap]
             /\ result' = "ok"
             /\ twice' = (twice \/ r.chunk \in held)
             /\ held' = held \cup {r.chunk}
    /\ s1' = S1Next([op |-> "get", chunk |-> NoChunk])
    /\ UNCHANGED fault
    /\ UNCHANGED <<indexVars, ioVars, cbuf>>

\* mp_pool_get when malloc or mmap fails
GetFail ==
    /\ fault = "none"
    /\ NeedsPage
    /\ \E mem \in BOOLEAN :
         \E r \in {mp_pool_get(pool, page, mem, MAP_FAILED, NoJunk)} :
             /\ pool' = r.pool
             /\ page' = r.page
             /\ heap' = [heap EXCEPT !.scrap = r.scrap]
             /\ result' = IF r.chunk = NoChunk THEN "null" ELSE "ok"
    /\ s1' = S1Off
    /\ UNCHANGED <<held, twice, fault>>
    /\ UNCHANGED <<indexVars, ioVars, cbuf>>

\* mp_pool_ret of a chunk the caller holds
Ret ==
    /\ fault = "none"
    /\ \E c \in held :
         \E r \in {mp_pool_ret(pool, page, c)} :
             /\ pool' = r.pool
             /\ page' = r.page
             /\ fault' = r.fault
             /\ held' = IF r.fault = "none" THEN held \ {c} ELSE held
             /\ result' = "ok"
             /\ s1' = S1Next([op |-> "ret", chunk |-> c])
    /\ UNCHANGED twice
    /\ UNCHANGED <<indexVars, ioVars, cbuf, heap>>

NextPool == GetHead \/ GetPage(MaxPages) \/ GetFail \/ Ret

SpecPool == InitPool /\ [][NextPool]_vars

\* what freed memory may give when it is read
FreedReads == {"stale", "wild"}

\* mp_pool_free, once
PoolFree ==
    /\ fault = "none"
    /\ ~heap.freed
    /\ \E junk \in FreedReads :
         \E r \in {mp_pool_free(pool, page, junk)} :
             /\ heap' = [heap EXCEPT !.unmapped = r.unmapped, !.freed = TRUE]
             /\ fault' = r.fault
    /\ result' = "ok"
    /\ s1' = S1Off
    /\ UNCHANGED <<pool, page, held, twice>>
    /\ UNCHANGED <<indexVars, ioVars, cbuf>>

\* a pool under get and ret, destroyed at any time
NextFree == NextPool \/ PoolFree

SpecFree == InitPool /\ [][NextFree]_vars

\* a pool that only grows: every page creation, the addresses in any order
NextGrow == GetHead \/ GetPage(MaxTreePages)

SpecGrow == InitPool /\ [][NextGrow]_vars

(***************************************************************************)
(* One page under the callers of the page API                              *)
(***************************************************************************)
\* what the ring arrays of a malloc'ed descriptor may hold
Junk == [Pos -> Pos] \X [Pos -> Pos]

InitPage ==
    /\ pool = [head |-> NULL, root |-> NULL, size |-> 0]
    /\ \E data \in Addr(MaxPages), junk \in Junk : page = <<mp_page_init(data, junk)>>
    /\ held = {}
    /\ result = "ok"
    /\ twice = FALSE
    /\ fault = "none"
    /\ s1 = S1Off
    /\ IndexIdle
    /\ IoIdle
    /\ heap = FreshHeap
    /\ ChunkIdle

\* mp_page_get_new on a page that is not full
PageGetNew ==
    /\ \E r \in {mp_page_get_new(page[1])} :
           /\ r[1] # UINT16_MAX
           /\ page' = [page EXCEPT ![1] = r[2]]
           /\ twice' = (twice \/ <<1, r[1]>> \in held)
           /\ held' = held \cup {<<1, r[1]>>}
           /\ result' = "ok"
    /\ UNCHANGED <<pool, fault, s1>>
    /\ UNCHANGED <<indexVars, ioVars, cbuf, heap>>

\* mp_page_get_new on a full page returns NULL
PageGetNull ==
    /\ \E r \in {mp_page_get_new(page[1])} :
           /\ r[1] = UINT16_MAX
           /\ page' = [page EXCEPT ![1] = r[2]]
           /\ result' = "null"
    /\ UNCHANGED <<pool, held, twice, fault, s1>>
    /\ UNCHANGED <<indexVars, ioVars, cbuf, heap>>

\* mp_page_get of a chunk that is in the free ring
PageGet ==
    /\ \E pos \in Ring(page[1]) :
         /\ page' = [page EXCEPT ![1] = mp_page_get(page[1], pos)]
         /\ held' = held \cup {<<1, pos>>}
    /\ result' = "ok"
    /\ UNCHANGED <<pool, twice, fault, s1>>
    /\ UNCHANGED <<indexVars, ioVars, cbuf, heap>>

\* mp_page_ret of a chunk the caller holds
PageRet ==
    /\ \E c \in held :
         /\ page' = [page EXCEPT ![1] = mp_page_ret(page[1], c[2])]
         /\ held' = held \ {c}
    /\ result' = "ok"
    /\ UNCHANGED <<pool, twice, fault, s1>>
    /\ UNCHANGED <<indexVars, ioVars, cbuf, heap>>

NextPage == PageGetNew \/ PageGetNull \/ PageGet \/ PageRet

SpecPage == InitPage /\ [][NextPage]_vars

(***************************************************************************)
(* The index of one matrix under its callers                               *)
(***************************************************************************)
PoolIdle ==
    /\ pool = [head |-> NULL, root |-> NULL, size |-> 0]
    /\ page = <<>>
    /\ held = {}
    /\ result = "ok"
    /\ twice = FALSE
    /\ s1 = S1Off
    /\ heap = FreshHeap

\* what tree.pos may hold before the first call writes it
JunkPos == {Unwritten, StackSlots}

\* what the byte before sides[0] may hold: 0, 1, or (2) any other value
JunkSides == {0, 1, 2}

InitIndex ==
    /\ PoolIdle
    /\ fault = "none"
    /\ \E pos \in JunkPos : tree = mp_tree_init(pos)
    /\ chunk = FreshChunks
    /\ present = {}
    /\ calls = 0
    /\ rets = <<>>
    /\ IoIdle
    /\ ChunkIdle

\* the process after a call on the index returned r.  Once the links from
\* the root are no longer a tree ("corrupt") the next calls walk memory in
\* an order this model does not follow, and it stops there.
After(r) ==
    IF r.fault # "none" THEN r.fault
    ELSE IF IsTree(r.tree, r.chunk) THEN "none" ELSE "corrupt"

\* rb_tree_find of any offset
IndexFind ==
    /\ fault = "none"
    /\ calls < MaxCalls
    /\ calls' = calls + 1
    /\ \E off \in Queries :
         \E r \in {rb_tree_find(tree, chunk, off)} :
             /\ tree' = r.tree
             /\ fault' = r.fault
    /\ UNCHANGED <<chunk, present, rets, poolVars, ioVars, cbuf>>

\* rb_tree_insert of any chunk, in the index already or not
IndexInsert ==
    /\ fault = "none"
    /\ calls < MaxCalls
    /\ calls' = calls + 1
    /\ \E c \in Chunks :
         \E r \in {rb_tree_insert(tree, chunk, c)} :
             /\ tree' = r.tree
             /\ chunk' = r.chunk
             /\ fault' = After(r)
             /\ present' = present \cup {c}
    /\ UNCHANGED <<rets, poolVars, ioVars, cbuf>>

\* rb_tree_remove of a chunk the caller inserted
IndexRemove ==
    /\ fault = "none"
    /\ calls < MaxCalls
    /\ calls' = calls + 1
    /\ \E c \in present, junk \in JunkSides :
         \E r \in {rb_tree_remove(tree, chunk, c, junk)} :
             /\ tree' = r.tree
             /\ chunk' = r.chunk
             /\ fault' = After(r)
             /\ present' = present \ {c}
    /\ UNCHANGED <<rets, poolVars, ioVars, cbuf>>

NextIndex == IndexFind \/ IndexInsert \/ IndexRemove

SpecIndex == InitIndex /\ [][NextIndex]_vars

\* an index that only grows: inserts of any chunk, again or for the first
\* time, and lookups
NextInsert == IndexInsert \/ IndexFind

SpecInsert == InitIndex /\ [][NextInsert]_vars

(***************************************************************************)
(* One matrix over a pool: the caller takes chunks from the pool, inserts  *)
(* them in the index of the matrix, looks offsets up, and frees the        *)
(* matrix.                                                                 *)
(***************************************************************************)
\* calls of mp_matrix_free on one matrix
MaxFrees == 2

InitMatrix ==
    /\ pool = [head |-> NULL, root |-> NULL, size |-> 0]
    /\ page = <<>>
    /\ held = {}
    /\ result = "ok"
    /\ twice = FALSE
    /\ fault = "none"
    /\ s1 = S1Off
    /\ heap = FreshHeap
    /\ \E pos \in JunkPos : tree = mp_tree_init(pos)
    /\ chunk = FreshChunks
    /\ present = {}
    /\ calls = 0
    /\ rets = <<>>
    /\ IoIdle
    /\ ChunkIdle

\* rb_tree_insert of a chunk the caller took from the pool
MatrixInsert ==
    /\ fault = "none"
    /\ rets = <<>>
    /\ calls < MaxCalls
    /\ calls' = calls + 1
    /\ \E c \in Chunks \ present :
         /\ PoolChunk(c) \in held
         /\ \E r \in {rb_tree_insert(tree, chunk, c)} :
              /\ tree' = r.tree
              /\ chunk' = r.chunk
              /\ fault' = After(r)
              /\ present' = present \cup {c}
    /\ UNCHANGED <<rets, poolVars, ioVars, cbuf>>

\* mp_matrix_free
MatrixFree ==
    /\ fault = "none"
    /\ Len(rets) < MaxFrees * Cardinality(present) \/ present = {}
    /\ \E r \in {mp_tree_free(tree, chunk, pool, page)} :
         /\ tree' = r.tree
         /\ pool' = r.pool
         /\ page' = r.page
         /\ rets' = rets \o r.rets
         /\ fault' = r.fault
         /\ held' = held \ { PoolChunk(r.rets[i]) :
                             i \in 1 .. (Len(r.rets) - (IF r.fault = "none" THEN 0 ELSE 1)) }
    /\ UNCHANGED <<chunk, present, calls, result, twice, s1, heap, ioVars, cbuf>>

NextMatrix ==
    \/ (rets = <<>> /\ (GetHead \/ GetPage(MaxPages)))
    \/ MatrixInsert
    \/ IndexFind
    \/ MatrixFree

SpecMatrix == InitMatrix /\ [][NextMatrix]_vars

(***************************************************************************)
(* Scenarios S3 and S4 of the specification: four chunks are inserted in   *)
(* a fixed order and three of them removed in a fixed order; the caller    *)
(* may look up the two offsets of S3 between any two of these calls.       *)
(* present tells how far the scenario has come, calls counts the lookups.  *)
(***************************************************************************)
\* the descriptor of the chunk at tile (x, y), and a packed offset
ChunkOf(x, y) == 2 * y + x + 1

Packed(x, y) == y * 2^CoordBits + x

S3Order == <<ChunkOf(0, 0), ChunkOf(1, 0), ChunkOf(0, 1), ChunkOf(1, 1)>>

S4Order == <<ChunkOf(0, 0), ChunkOf(1, 1), ChunkOf(1, 0)>>

\* the offsets S3 looks up: one that is present after S3, one that never is
S3Queries == {Packed(0, 1), Packed(2, 2)}

\* the chunks in the index before the k-th insert of S3, the k-th remove
\* of S4
S3Before(k) == { S3Order[i] : i \in 1 .. (k - 1) }

S4Before(k) == S3Before(Len(S3Order) + 1) \ { S4Order[i] : i \in 1 .. (k - 1) }

ScenarioInsert ==
    /\ fault = "none"
    /\ \E k \in 1 .. Len(S3Order) :
         /\ present = S3Before(k)
         /\ \E r \in {rb_tree_insert(tree, chunk, S3Order[k])} :
              /\ tree' = r.tree
              /\ chunk' = r.chunk
              /\ fault' = After(r)
              /\ present' = present \cup {S3Order[k]}
    /\ UNCHANGED <<calls, rets, poolVars, ioVars, cbuf>>

ScenarioRemove ==
    /\ fault = "none"
    /\ \E k \in 1 .. Len(S4Order), junk \in JunkSides :
         /\ present = S4Before(k)
         /\ \E r \in {rb_tree_remove(tree, chunk, S4Order[k], junk)} :
              /\ tree' = r.tree
              /\ chunk' = r.chunk
              /\ fault' = After(r)
              /\ present' = present \ {S4Order[k]}
    /\ UNCHANGED <<calls, rets, poolVars, ioVars, cbuf>>

ScenarioFind ==
    /\ fault = "none"
    /\ calls < MaxCalls
    /\ calls' = calls + 1
    /\ \E off \in S3Queries :
         \E r \in {rb_tree_find(tree, chunk, off)} :
             /\ tree' = r.tree
             /\ fault' = r.fault
    /\ UNCHANGED <<chunk, present, rets, poolVars, ioVars, cbuf>>

NextScenario == ScenarioInsert \/ ScenarioRemove \/ ScenarioFind

SpecScenario == InitIndex /\ [][NextScenario]_vars

(***************************************************************************)
(* Two matrices, their files and the stream between them: the caller      *)
(* gives M a file, a size and a payload and sends it once over A; the      *)
(* receiver gives M' a file of its own and reads A into it once.           *)
(***************************************************************************)
Dims == 0 .. MaxDim

\* what the system calls of one call of the program may do
Outcomes == {"short", "eintr", "eagain", "err"}

RECURSIVE PlansOf(_)
PlansOf(n) ==
    IF n = 0 THEN {<<>>}
    ELSE With(PlansOf(n - 1), LAMBDA ps :
              ps \cup { <<o>> \o p : o \in Outcomes, p \in { q \in ps : Len(q) = n - 1 } })

Plans == PlansOf(MaxPlan)

\* what the bytes 8..15 of the header array of mp_matrix_recv_msize, which
\* nothing writes, may hold
JunkBytes == {0, 2, ByteVals - 1}

JunkHeaders == { Zeros(WORD) \o g : g \in [1 .. WORD -> JunkBytes] }

\* bytes of the payload of a matrix of that size
PayloadBytes(size) == size[1] * size[2] * WORD

\* the payload region of file content fl for that size, <<-1>> if fl is
\* too short to hold it
Payload(fl, size) ==
    IF Len(fl) >= HEADER + PayloadBytes(size)
    THEN SubSeq(fl, HEADER + 1, HEADER + PayloadBytes(size))
    ELSE <<-1>>

\* how a call ended
Status(ret) == IF ret = 0 THEN "ok" ELSE IF ret = Never THEN "never" ELSE "fail"

InitStream ==
    /\ PoolIdle
    /\ IndexIdle
    /\ fault = "none"
    /\ matx = FreshMatx
    /\ sys = FreshSys
    /\ status = [send |-> "none", recv |-> "none"]
    /\ endian \in {"little", "big"}
    /\ snap = NoSnap
    /\ env = [send |-> TRUE, recv |-> TRUE]
    /\ lastCall = NoCall
    /\ ChunkIdle

\* mp_matrix_set_file of matrix i on its file
SetFile ==
    /\ \E i \in Mats, plan \in Plans :
         /\ matx[i].fd = NoFd
         /\ \E r \in {mp_matrix_set_file([sys EXCEPT !.plan = plan], matx[i], i, endian)} :
              /\ matx' = [matx EXCEPT ![i] = r.matx]
              /\ sys' = [r.sys EXCEPT !.plan = <<>>]
    /\ lastCall' = NoCall
    /\ UNCHANGED <<status, endian, snap, env, poolVars, indexVars, fault, cbuf>>

\* the record of a call of mp_matrix_set_size: its definition (inline: the
\* one in mp_matrix.h), argument, result, whether the kernel let every
\* system call through, and whether it repeats the call before it (nth = 2)
Called(inline, size, plan, ret) ==
    [op |-> "set_size", arg |-> size, ret |-> ret, calm |-> (plan = <<>>),
     inline |-> inline,
     nth |-> IF /\ lastCall.op = "set_size"
                /\ lastCall.arg = size
                /\ lastCall.inline = inline
                /\ lastCall.calm
                /\ plan = <<>>
             THEN 2 ELSE 1]

\* mp_matrix_set_size of M, before it is sent
SetSize ==
    /\ status.send = "none"
    /\ \E x \in Dims, y \in Dims, plan \in Plans :
         \E r \in {mp_matrix_set_size([sys EXCEPT !.plan = plan], matx[1], <<x, y>>, endian)} :
              /\ matx' = [matx EXCEPT ![1] = r.matx]
              /\ sys' = [r.sys EXCEPT !.plan = <<>>]
              /\ lastCall' = Called(FALSE, <<x, y>>, plan, r.ret)
    /\ UNCHANGED <<status, endian, snap, env, poolVars, indexVars, fault, cbuf>>

\* the same call in a build that takes the definition in mp_matrix.h
SetSizeInline ==
    /\ status.send = "none"
    /\ \E x \in Dims, y \in Dims, plan \in Plans :
         \E r \in {mp_matrix_set_size_h([sys EXCEPT !.plan = plan], matx[1], <<x, y>>)} :
              /\ matx' = [matx EXCEPT ![1] = r.matx]
              /\ sys' = [r.sys EXCEPT !.plan = <<>>]
              /\ lastCall' = Called(TRUE, <<x, y>>, plan, r.ret)
    /\ UNCHANGED <<status, endian, snap, env, poolVars, indexVars, fault, cbuf>>

\* the caller writes the elements 1, 2, ... of the payload of M into its
\* file with pwrite, which leaves the descriptor's offset alone
CallerStore ==
    /\ status.send = "none"
    /\ matx[1].fd # NoFd
    /\ PayloadBytes(matx[1].size) > 0
    /\ Len(sys.file[1]) = HEADER + PayloadBytes(matx[1].size)
    /\ \E r \in { [k \in 1 .. PayloadBytes(matx[1].size) |->
                     Mem(((k - 1) \div WORD) + 1, endian)[((k - 1) % WORD) + 1]] } :
         sys' = [sys EXCEPT !.file[1] = Overwrite(@, HEADER, r)]
    /\ lastCall' = NoCall
    /\ UNCHANGED <<matx, status, endian, snap, env, poolVars, indexVars, fault, cbuf>>

\* the caller moves the offset of M's descriptor: lseek to the start of the
\* file or of the payload
CallerSeek ==
    /\ status.send = "none"
    /\ matx[1].fd # NoFd
    /\ \E off \in {0, HEADER} : sys' = [sys EXCEPT !.fpos[1] = off]
    /\ lastCall' = NoCall
    /\ UNCHANGED <<matx, status, endian, snap, env, poolVars, indexVars, fault, cbuf>>

\* mp_matrix_send(M, A), once
Send ==
    /\ status.send = "none"
    /\ matx[1].fd # NoFd
    /\ \E plan \in Plans :
         \E r \in {mp_matrix_send([sys EXCEPT !.plan = plan], matx[1], StreamA, endian)} :
              /\ sys' = [r.sys EXCEPT !.plan = <<>>]
              /\ status' = [status EXCEPT !.send = Status(r.ret)]
              /\ env' = [env EXCEPT !.send = (plan = <<>>)]
    /\ snap' = [size |-> matx[1].size,
                payload |-> Payload(sys.file[1], matx[1].size),
                declared |-> Len(sys.file[1]) = HEADER + PayloadBytes(matx[1].size)]
    /\ lastCall' = NoCall
    /\ UNCHANGED <<matx, endian, poolVars, indexVars, fault, cbuf>>

\* the sender closes its end of A
CloseA ==
    /\ status.send # "none"
    /\ ~sys.wclosed
    /\ sys' = [sys EXCEPT !.wclosed = TRUE]
    /\ lastCall' = NoCall
    /\ UNCHANGED <<matx, status, endian, snap, env, poolVars, indexVars, fault, cbuf>>

\* mp_matrix_recv(M', A), once, after the sender has returned
Recv ==
    /\ status.send # "none"
    /\ status.recv = "none"
    /\ \E plan \in Plans, hdr \in JunkHeaders :
         \E r \in {mp_matrix_recv([sys EXCEPT !.plan = plan], matx[2], StreamA, hdr, endian)} :
              /\ matx' = [matx EXCEPT ![2] = r.matx]
              /\ sys' = [r.sys EXCEPT !.plan = <<>>]
              /\ status' = [status EXCEPT !.recv = Status(r.ret)]
              /\ env' = [env EXCEPT !.recv = (plan = <<>>)]
    /\ lastCall' = NoCall
    /\ UNCHANGED <<endian, snap, poolVars, indexVars, fault, cbuf>>

NextStream == SetFile \/ SetSize \/ CallerStore \/ CallerSeek \/ Send \/ CloseA \/ Recv

SpecStream == InitStream /\ [][NextStream]_vars

\* a matrix, its file and the calls that size it, in a build with either
\* definition of mp_matrix_set_size
NextSize == SetFile \/ SetSize \/ SetSizeInline \/ CallerStore \/ CallerSeek

SpecSize == InitStream /\ [][NextSize]_vars

\* sizes whose payload does not fit a word: columns and rows from the small
\* ones up to those whose byte count wraps
WideDims == {1, 2, WordVals \div WORD, (WordVals \div WORD) + 1}

\* mp_matrix_set_size of M with any of these sizes
SetSizeWide ==
    /\ status.send = "none"
    /\ \E x \in WideDims, y \in WideDims, plan \in Plans :
         \E r \in {mp_matrix_set_size([sys EXCEPT !.plan = plan], matx[1], <<x, y>>, endian)} :
              /\ matx' = [matx EXCEPT ![1] = r.matx]
              /\ sys' = [r.sys EXCEPT !.plan = <<>>]
              /\ lastCall' = Called(FALSE, <<x, y>>, plan, r.ret)
    /\ UNCHANGED <<status, endian, snap, env, poolVars, indexVars, fault, cbuf>>

\* a matrix sized with any of the wide sizes, sent and received
NextWide == SetFile \/ SetSizeWide \/ Send \/ CloseA \/ Recv

SpecWide == InitStream /\ [][NextWide]_vars

(***************************************************************************)
(* One chunk and a stream: a peer puts bytes on the stream and may close   *)
(* it; the chunk is received from the stream once and sent to it once.     *)
(***************************************************************************)
\* bytes the peer puts on the stream at most: a chunk and a row
MaxFeed == ChunkLen + RowBytes

\* what the payload and the row behind it hold before the transfer
Blank == [i \in 1 .. (ChunkLen + RowBytes) |-> IF i <= ChunkLen THEN 0 ELSE ByteVals - 1]

InitChunk ==
    /\ PoolIdle
    /\ IndexIdle
    /\ fault = "none"
    /\ matx = FreshMatx
    /\ sys = FreshSys
    /\ status = [send |-> "none", recv |-> "none"]
    /\ endian = "little"
    /\ snap = NoSnap
    /\ env = [send |-> TRUE, recv |-> TRUE]
    /\ lastCall = NoCall
    /\ \E dx \in 0 .. (CHUNK_W - 1), dy \in 0 .. (CHUNK_W - 1), edge \in BOOLEAN :
         cbuf = [size |-> <<dx, dy>>, data |-> Blank, edge |-> edge]

\* the peer writes the next byte of its payload: 1, 2, ... in turn
ChunkFeed ==
    /\ status.recv = "none"
    /\ status.send = "none"
    /\ ~sys.wclosed
    /\ Len(sys.wire) < MaxFeed
    /\ sys' = [sys EXCEPT !.wire = Append(@, (Len(@) % (ByteVals - 2)) + 1)]
    /\ UNCHANGED <<matx, status, endian, snap, env, lastCall, poolVars, indexVars, fault, cbuf>>

\* the peer closes its end of the stream
ChunkClose ==
    /\ status.recv = "none"
    /\ ~sys.wclosed
    /\ sys' = [sys EXCEPT !.wclosed = TRUE]
    /\ UNCHANGED <<matx, status, endian, snap, env, lastCall, poolVars, indexVars, fault, cbuf>>

\* mp_chunk_recv(chunk, A), once
ChunkRecv ==
    /\ status.recv = "none"
    /\ status.send = "none"
    /\ \E plan \in Plans :
         \E r \in {mp_chunk_recv([sys EXCEPT !.plan = plan], cbuf)} :
              /\ sys' = [r.sys EXCEPT !.plan = <<>>]
              /\ cbuf' = [cbuf EXCEPT !.data = r.mem]
              /\ status' = [status EXCEPT !.recv = Status(r.ret)]
              /\ env' = [env EXCEPT !.recv = (plan = <<>>)]
    /\ UNCHANGED <<matx, endian, snap, lastCall, poolVars, indexVars, fault>>

\* mp_chunk_send(chunk, A), once
ChunkSend ==
    /\ status.send = "none"
    /\ \E plan \in Plans :
         \E r \in {mp_chunk_send([sys EXCEPT !.plan = plan], cbuf)} :
              /\ sys' = [r.sys EXCEPT !.plan = <<>>]
              /\ status' = [status EXCEPT !.send = Status(r.ret)]
              /\ env' = [env EXCEPT !.send = (plan = <<>>)]
    /\ UNCHANGED <<matx, endian, snap, lastCall, poolVars, indexVars, fault, cbuf>>

NextChunk == ChunkFeed \/ ChunkClose \/ ChunkRecv \/ ChunkSend

SpecChunk == InitChunk /\ [][NextChunk]_vars

(***************************************************************************)
(* Properties of the pool and the page                                     *)
(***************************************************************************)
Pages == 1 .. Len(page)

\* the pages met walking nextp from the head, at most n steps
RECURSIVE ListFrom(_, _, _)
ListFrom(p, n, seen) ==
    IF p = NULL \/ p \in seen \/ n = 0 THEN seen
    ELSE With(<<page[p].nextp, seen \cup {p}>>,
              LAMBDA x : ListFrom(x[1], n - 1, x[2]))

ListPages == ListFrom(pool.head, Len(page) + 1, {})

\* the pages under node n of the tree, to depth d
RECURSIVE TreeFrom(_, _)
TreeFrom(n, d) ==
    IF n = NULL \/ d = 0 THEN {}
    ELSE With(page[n].sides, LAMBDA c :
              {n} \cup TreeFrom(c[1], d - 1) \cup TreeFrom(c[2], d - 1))

TreePages == TreeFrom(pool.root, Len(page) + 1)

\* every data pointer under n lies strictly between lo and hi
RECURSIVE PoolBst(_, _, _, _)
PoolBst(n, lo, hi, d) ==
    IF n = NULL THEN TRUE
    ELSE IF d = 0 THEN FALSE
    ELSE With(page[n], LAMBDA pn :
              /\ lo < pn.data
              /\ pn.data < hi
              /\ PoolBst(pn.sides[1], lo, pn.data, d - 1)
              /\ PoolBst(pn.sides[2], pn.data, hi, d - 1))

\* black nodes on every path from n to a nil link, or -1 when paths differ
\* or a red node has a red child
RECURSIVE PoolBlackHeight(_, _)
PoolBlackHeight(n, d) ==
    IF n = NULL THEN 0
    ELSE IF d = 0 THEN -1
    ELSE With(page[n], LAMBDA pn :
         With(<<PoolBlackHeight(pn.sides[1], d - 1),
                PoolBlackHeight(pn.sides[2], d - 1)>>, LAMBDA h :
         LET l   == pn.sides[1]
             r   == pn.sides[2]
             red == pn.color = MP_RED
             rr  == red /\ ( (l # NULL /\ page[l].color = MP_RED)
                          \/ (r # NULL /\ page[r].color = MP_RED) )
         IN  IF h[1] = -1 \/ h[2] = -1 \/ h[1] # h[2] \/ rr THEN -1
             ELSE h[1] + (IF red THEN 0 ELSE 1)))

RECURSIVE PoolHeight(_, _)
PoolHeight(n, d) ==
    IF n = NULL \/ d = 0 THEN 0
    ELSE With(<<PoolHeight(page[n].sides[1], d - 1),
                PoolHeight(page[n].sides[2], d - 1)>>, LAMBDA h :
              1 + (IF h[1] > h[2] THEN h[1] ELSE h[2]))

\* positions of page p that were returned and not issued again
Returned(p) == { i \in Pos : i < page[p].fill /\ <<p, i>> \notin held }

\* C1: for every chunk mp_pool_get has issued and the caller holds,
\* mp_pool_tree_find returns the page that owns it (never NULL, never another)
C1_ReverseLookup ==
    \A c \in held : mp_pool_tree_find(pool, page, c) = c[1]

\* C2: mp_pool_get never issues a chunk a caller holds, and no held chunk
\* is a member of the free ring of its page
C2_IssueReturnBalance ==
    /\ twice = FALSE
    /\ \A c \in held : c[2] \notin Ring(page[c[1]])

\* a page whose chunks are all held again after some of them went through
\* the ring
C2_Witness ==
    \E p \in Pages :
        /\ mp_page_full(page[p])
        /\ \E i \in Pos : page[p].next[i] # Unwritten
        /\ \A i \in Pos : <<p, i>> \in held

\* C6: the tree under pool.root is a binary search tree by data pointer and
\* is red/black valid
C6_PoolTreeValid ==
    /\ PoolBst(pool.root, 0, (MaxTreePages + MaxPages + 1) * PAGE_SIZE, Len(page) + 1)
    /\ pool.root # NULL => page[pool.root].color = MP_BLACK
    /\ PoolBlackHeight(pool.root, Len(page) + 1) # -1
    /\ TreePages = Pages

\* a tree of MaxTreePages pages, four levels deep, with a red page in it
C6_Witness ==
    /\ Len(page) = MaxTreePages
    /\ PoolHeight(pool.root, Len(page) + 1) >= 4
    /\ \E p \in Pages : page[p].color = MP_RED

\* C7: list and tree hold the same pages, every page ever mapped; size
\* counts them; head is NULL exactly when size is 0; the list is doubly
\* consistent
C7_PoolIndexSync ==
    /\ ListPages = Pages
    /\ TreePages = Pages
    /\ pool.size = Len(page)
    /\ (pool.head = NULL) <=> (pool.size = 0)
    /\ \A p \in Pages : /\ page[p].nextp \in Pages
                        /\ page[p].prevp \in Pages
                        /\ page[page[p].nextp].prevp = p
                        /\ page[page[p].prevp].nextp = p

\* three pages, the head not the newest one, after a return
C7_Witness ==
    /\ Len(page) = 3
    /\ pool.head # 3
    /\ \E p \in Pages : Ring(page[p]) # {}
    /\ fault = "none"

\* C8, the invariant: the ring holds exactly the returned positions, its
\* links are mutually consistent, and free is a member (UINT16_MAX when the
\* ring is empty)
RingConsistent(p) ==
    LET pg == page[p]
    IN  /\ Ring(pg) = Returned(p)
        /\ (Returned(p) = {}) <=> (pg.free = UINT16_MAX)
        /\ Returned(p) # {} => pg.free \in Returned(p)
        /\ \A i \in Returned(p) : /\ pg.next[i] \in Returned(p)
                                  /\ pg.prev[i] \in Returned(p)
                                  /\ pg.next[pg.prev[i]] = i
                                  /\ pg.prev[pg.next[i]] = i

\* C8, the edge cases, as steps of page 1
RingEdgeCases ==
    \A pos \in Pos :
        /\ \* inserting into an empty ring makes a self-loop with free = pos
           (Returned(1) = {} /\ held' = held \ {<<1, pos>>} /\ <<1, pos>> \in held)
               => /\ page'[1].next[pos] = pos
                  /\ page'[1].prev[pos] = pos
                  /\ page'[1].free = pos
        /\ \* removing the last member empties the ring
           (Returned(1) = {pos} /\ held' = held \cup {<<1, pos>>})
               => page'[1].free = UINT16_MAX
        /\ \* removing the head advances free to its next
           (pos \in Returned(1) /\ Returned(1) # {pos} /\ page[1].free = pos
                /\ held' = held \cup {<<1, pos>>})
               => page'[1].free = page[1].next[pos]

\* C8: page ring consistency in every reachable page state, and the edge
\* cases of inserting into an empty ring, removing the last member and
\* removing the head
C8_PageRing == [](\A p \in Pages : RingConsistent(p)) /\ [][RingEdgeCases]_vars

\* a full-grown page whose ring has two members, the head not the lowest
C8_Witness ==
    /\ page[1].fill = PAGE_SIZE
    /\ Cardinality(Ring(page[1])) >= 2
    /\ page[1].free # 0

\* C9: along scenario S1 every call completes; the gets after the returns
\* first take the second page's never-issued positions, then the first
\* page's ring, and only then map a third page
C9_S1Ordering ==
    s1.on =>
        /\ fault = "none"
        /\ LET j == s1.n - (2 * PAGE_SIZE + 1)
           IN  /\ (1 <= j /\ j <= PAGE_SIZE - 1)
                    => held = { <<2, i>> : i \in 0 .. j }
               /\ (PAGE_SIZE <= j /\ j < 2 * PAGE_SIZE)
                    => /\ Len(page) = 2
                       /\ { <<2, i>> : i \in Pos } \subseteq held
                       /\ Cardinality(held) = j + 1
               /\ j = 2 * PAGE_SIZE
                    => /\ Len(page) = 3
                       /\ <<3, 0>> \in held

(***************************************************************************)
(* Properties of the matrix index                                          *)
(***************************************************************************)
\* every offset under n lies strictly between lo and hi
RECURSIVE IndexBst(_, _, _, _, _)
IndexBst(ch, n, lo, hi, d) ==
    IF n = NULL THEN TRUE
    ELSE IF d = 0 THEN FALSE
    ELSE /\ lo < Offset(n)
         /\ Offset(n) < hi
         /\ IndexBst(ch, ch[n].sides[0], lo, Offset(n), d - 1)
         /\ IndexBst(ch, ch[n].sides[1], Offset(n), hi, d - 1)

\* black nodes on every path from n to a nil link, or -1 when paths differ
\* or a red node has a red child
RECURSIVE IndexBlackHeight(_, _, _)
IndexBlackHeight(ch, n, d) ==
    IF n = NULL THEN 0
    ELSE IF d = 0 THEN -1
    ELSE With(<<IndexBlackHeight(ch, ch[n].sides[0], d - 1),
                IndexBlackHeight(ch, ch[n].sides[1], d - 1)>>, LAMBDA h :
         IF h[1] = -1 \/ h[2] = -1 \/ h[1] # h[2] THEN -1
         ELSE IF IsRed(ch, n)
         THEN (IF IsRed(ch, ch[n].sides[0]) \/ IsRed(ch, ch[n].sides[1])
               THEN -1 ELSE h[1])
         ELSE h[1] + 1)

\* what a walk from the root that ignores the cache returns for off
ColdWalk(t, ch, off) == FindWalk(t, ch, t.root, off).node

\* rb_tree_find(off) returns, and returns node
Finds(t, ch, off, node) ==
    With(rb_tree_find(t, ch, off), LAMBDA r : r.fault = "none" /\ r.node = node)

\* C3: after every rb_tree_insert and every rb_tree_remove of a present
\* chunk the tree is a binary search tree on the packed offset, its root is
\* black, no red node has a red child and every path from the root to a nil
\* link has the same number of black nodes
C3_IndexValid ==
    /\ IndexBst(chunk, tree.root, -1, UINT64_MAX + 1, MaxChunks + 1)
    /\ tree.root # NULL => chunk[tree.root].color = MP_BLACK
    /\ IndexBlackHeight(chunk, tree.root, MaxChunks + 1) # -1

\* C4: a step that removes a present chunk c from a tree in which every
\* present chunk is found returns, and after it rb_tree_find(c.offset)
\* returns nil and rb_tree_find returns every other present chunk
C4_RemoveKeepsRest ==
    [][\A c \in present :
          ( /\ present' = present \ {c}
            /\ \A d \in present : ColdWalk(tree, chunk, Offset(d)) = d )
          => ( /\ fault' \in {"none", "corrupt"}
               /\ Finds(tree', chunk', Offset(c), NULL)
               /\ \A d \in present' : Finds(tree', chunk', Offset(d), d) )]_vars

\* C5: rb_tree_find returns for every offset, the all-ones word included,
\* what a walk from the root that ignores the cache returns
C5_CacheTransparent ==
    \A off \in Queries :
        rb_tree_find(tree, chunk, off).node = ColdWalk(tree, chunk, off)

(***************************************************************************)
(* Properties of the matrix transfer                                       *)
(***************************************************************************)
\* C10: when mp_matrix_recv reads, into a fresh matrix with its own file,
\* the stream that mp_matrix_send wrote from a matrix with a backing file
\* and a declared size, no system call failing, falling short or being
\* interrupted, then both calls succeed, the receiver's size is the
\* sender's in both fields, and its payload bytes are the sender's
C10_RoundTrip ==
    [][ ( /\ status.recv = "none"
          /\ status'.recv # "none"
          /\ snap.declared
          /\ env.send
          /\ env'.recv
          /\ matx[2].fd # NoFd
          /\ sys.file[2] = <<>>
          /\ sys.fpos[2] = 0 )
        => ( /\ status.send = "ok"
             /\ status'.recv = "ok"
             /\ matx'[2].size = snap.size
             /\ Payload(sys'.file[2], snap.size) = snap.payload ) ]_vars

\* the bytes mp_matrix_splice is to move for a matrix of that size: remain
Declared(size) == (((size[1] * size[2]) % WordVals) * WORD) % WordVals

\* C11: when mp_matrix_recv succeeds on a matrix with its own file, the file
\* is exactly header plus payload bytes long for the size received, its
\* first two words are Mx and My most significant byte first, and the bytes
\* after the header are the payload bytes taken from the stream, in order
C11_FileLayout ==
    [][ ( /\ status.recv = "none"
          /\ status'.recv = "ok"
          /\ matx'[2].fd # NoFd )
        => LET got == SubSeq(sys.wire, 1, Len(sys.wire) - Len(sys'.wire))
               fl  == sys'.file[2]
               sz  == matx'[2].size
           IN  /\ Len(fl) = HEADER + PayloadBytes(sz)
               /\ SubSeq(fl, 1, WORD) = BE(sz[1])
               /\ SubSeq(fl, WORD + 1, HEADER) = BE(sz[2])
               /\ SubSeq(fl, HEADER + 1, Len(fl)) = SubSeq(got, HEADER + 1, Len(got)) ]_vars

\* C12: a successful mp_matrix_send puts on the stream the two words of the
\* size, most significant byte first, and then only bytes it moved out of
\* the file; a successful mp_matrix_recv takes the two words of the size it
\* stores from the stream and then only bytes it moves into the file
C12_WireFraming ==
    [][ /\ ( status.send = "none" /\ status'.send = "ok" )
           => LET put == SubSeq(sys'.wire, Len(sys.wire) + 1, Len(sys'.wire))
              IN  /\ Len(put) >= HEADER
                  /\ SubSeq(put, 1, WORD) = BE(matx[1].size[1])
                  /\ SubSeq(put, WORD + 1, HEADER) = BE(matx[1].size[2])
                  /\ Len(put) - HEADER = sys'.fpos[1] - sys.fpos[1]
        /\ ( status.recv = "none" /\ status'.recv = "ok" )
           => LET got == SubSeq(sys.wire, 1, Len(sys.wire) - Len(sys'.wire))
              IN  /\ Len(got) >= HEADER
                  /\ matx'[2].size = << FromBE(SubSeq(got, 1, WORD)),
                                        FromBE(SubSeq(got, WORD + 1, HEADER)) >>
                  /\ Len(got) - HEADER = sys'.fpos[2] - sys.fpos[2] ]_vars

\* C13: after a successful mp_matrix_set_size(m, (Mx, My)) the file is
\* exactly header plus Mx * My words long, its first two words are Mx and
\* My most significant byte first, and m.size is (Mx, My)
C13_SetSizeLayout ==
    ( lastCall.op = "set_size" /\ lastCall.ret = 0 )
    => /\ Len(sys.file[1]) = HEADER + PayloadBytes(lastCall.arg)
       /\ SubSeq(sys.file[1], 1, WORD) = BE(lastCall.arg[1])
       /\ SubSeq(sys.file[1], WORD + 1, HEADER) = BE(lastCall.arg[2])
       /\ matx[1].size = lastCall.arg

\* C14: after an mp_matrix_set_size on a valid fd whose truncation or header
\* write failed, the status is negative and m.size is (0, 0)
C14_SetSizeFailure ==
    ( lastCall.op = "set_size" /\ lastCall.ret # 0 /\ matx[1].fd # NoFd )
    => /\ lastCall.ret < 0
       /\ matx[1].size = <<0, 0>>

\* C15: mp_matrix_send and mp_matrix_recv report success only when all the
\* declared payload bytes were moved, and close neither the stream nor the
\* file of the matrix
C15_EofFatal ==
    [][ /\ ( status.send = "none" /\ status'.send = "ok" )
           => /\ sys'.fpos[1] - sys.fpos[1] = Declared(matx[1].size)
              /\ sys'.wclosed = sys.wclosed
              /\ matx'[1].fd = matx[1].fd
        /\ ( status.recv = "none" /\ status'.recv = "ok" )
           => /\ sys'.fpos[2] - sys.fpos[2] = Declared(matx'[2].size)
              /\ sys'.wclosed = sys.wclosed
              /\ matx'[2].fd = matx[2].fd ]_vars

\* C16: when the stream is at its end before the header is complete, so
\* that a read of the header returns 0, mp_matrix_recv returns failure,
\* whatever interruptions came before
C16_ZeroReadFails ==
    [][ ( /\ status.recv = "none"
          /\ status'.recv # "none"
          /\ sys.wclosed
          /\ Len(sys.wire) < WORD )
        => status'.recv = "fail" ]_vars

\* C20: an mp_matrix_set_size on a valid fd that repeats the call before it
\* changes neither m.size, nor the length or the bytes of the file, nor the
\* position of the fd, and returns what the first call returned
C20_HeaderIdempotent ==
    [][ ( lastCall'.nth = 2 /\ matx[1].fd # NoFd )
        => /\ matx' = matx
           /\ sys'.file = sys.file
           /\ sys'.fpos = sys.fpos
           /\ lastCall'.ret = lastCall.ret ]_vars

\* a state the second of two equal calls of the mp_matrix.c definition led
\* to, with a payload, the fd moved off the start of the file
C20_Witness ==
    /\ lastCall.nth = 2
    /\ lastCall.ret = 0
    /\ ~lastCall.inline
    /\ PayloadBytes(lastCall.arg) > 0
    /\ sys.fpos[1] = HEADER
    /\ sys.file[1] # Zeros(Len(sys.file[1]))

(***************************************************************************)
(* Properties of the chunk transfer                                        *)
(***************************************************************************)
\* the bytes of memory mem that are in the leading w elements of the first
\* h rows, row by row
RECURSIVE Leading(_, _, _)
Leading(mem, w, h) ==
    IF h = 0 THEN <<>>
    ELSE Leading(mem, w, h - 1) \o SubSeq(mem, (h - 1) * RowBytes + 1,
                                          (h - 1) * RowBytes + w * WORD)

\* whether byte i (from 1) of the memory is in the leading w elements of
\* the first h rows, and its place among them
InLeading(i, w, h) ==
    /\ (i - 1) \div RowBytes < h
    /\ (i - 1) % RowBytes < w * WORD

Place(i, w) == ((i - 1) \div RowBytes) * (w * WORD) + ((i - 1) % RowBytes) + 1

\* C17: a successful mp_chunk_recv of a chunk of effective size (w, h)
\* takes exactly h * w words from the stream and stores them in the leading
\* w elements of rows 0 .. h - 1, every other byte of memory as it was; a
\* successful mp_chunk_send puts exactly those bytes on the stream, in the
\* same order
C17_ChunkTransfer ==
    [][ LET w == cbuf.size[1] + 1
            h == cbuf.size[2] + 1
        IN  /\ ( status.recv = "none" /\ status'.recv = "ok" )
               => LET got == SubSeq(sys.wire, 1, Len(sys.wire) - Len(sys'.wire))
                  IN  /\ Len(got) = h * w * WORD
                      /\ \A i \in 1 .. Len(cbuf.data) :
                           cbuf'.data[i] = IF InLeading(i, w, h)
                                           THEN got[Place(i, w)]
                                           ELSE cbuf.data[i]
            /\ ( status.send = "none" /\ status'.send = "ok" )
               => SubSeq(sys'.wire, Len(sys.wire) + 1, Len(sys'.wire))
                  = Leading(cbuf.data, w, h) ]_vars

(***************************************************************************)
(* Properties of the pool's memory                                         *)
(***************************************************************************)
\* C18: mp_pool_free returns, having unmapped and freed every page of the
\* pool exactly once, without reading a descriptor it has freed
C18_PoolFreeOnce ==
    [][ ( ~heap.freed /\ heap'.freed )
        => /\ fault' = "none"
           /\ Len(heap'.unmapped) = Len(page)
           /\ \A p \in 1 .. Len(page) : heap'.unmapped[p] = 1 ]_vars

\* C19: an mp_pool_get that returns NULL leaves the pool, every page
\* descriptor with its list and tree links, and the chunks held as they
\* were, and has freed the descriptor it allocated, if any, which was
\* never linked
C19_FailedGetPublishesNothing ==
    [][ result' = "null"
        => /\ pool' = pool
           /\ page' = page
           /\ held' = held
           /\ heap'.scrap \in {"none", "freed"} ]_vars

\* an mp_pool_get whose mmap failed, in a pool of two pages or more
C19_Witness ==
    /\ result = "null"
    /\ heap.scrap = "freed"
    /\ Len(page) >= 2
    /\ pool.size = Len(page)
    /\ held # {}

(***************************************************************************)
(* Properties of mp_matrix_recv under signals                              *)
(***************************************************************************)
\* where a signal may fall among the first three system calls of
\* mp_matrix_recv (the reads of the header, ftruncate, pwrite), each of
\* which may end with EINTR
SignalPlans ==
    { p \in UNION { [1 .. n -> {"ok", "eintr"}] : n \in 0 .. 3 } :
        \E k \in 1 .. Len(p) : p[k] = "eintr" }

\* the outcome of mp_matrix_recv(M', A) in the present state when the
\* system calls go as plan says and the header array holds hdr on entry
RecvUnder(plan, hdr) ==
    With(mp_matrix_recv([sys EXCEPT !.plan = plan], matx[2], StreamA, hdr, endian),
         LAMBDA r : [ret |-> r.ret, size |-> r.matx.size, file |-> r.sys.file[2]])

\* C21: where mp_matrix_recv can be called, every placement of interrupted
\* system calls gives the return status, the size of M' and the bytes of
\* its file that the uninterrupted call gives on the same input
C21_SignalResilience ==
    ( status.send # "none" /\ status.recv = "none" )
    => \A plan \in SignalPlans, hdr \in JunkHeaders :
           RecvUnder(plan, hdr) = RecvUnder(<<>>, hdr)

(***************************************************************************)
(* Properties of the matrix index, continued                               *)
(***************************************************************************)
\* C22: along S3 and S4, after every insert and every remove and whatever
\* was looked up in between, the tree is red/black-valid, rb_tree_find
\* returns each chunk that is in the index and nil for each that was
\* removed or not yet inserted, and nil for the offset (2, 2)
C22_ScenarioS3S4 ==
    /\ fault = "none"
    /\ C3_IndexValid
    /\ \A k \in 1 .. Len(S3Order) :
           Finds(tree, chunk, Offset(S3Order[k]),
                 IF S3Order[k] \in present THEN S3Order[k] ELSE NULL)
    /\ Finds(tree, chunk, Packed(2, 2), NULL)

\* S3 and S4 done, with the two lookups made
C22_Witness ==
    /\ present = S4Before(Len(S4Order) + 1)
    /\ calls >= 2
    /\ tree.root = ChunkOf(0, 1)
    /\ fault = "none"

\* the chunks under n in order, left subtree first, to depth d
RECURSIVE InOrder(_, _, _)
InOrder(ch, n, d) ==
    IF n = NULL \/ d = 0 THEN <<>>
    ELSE InOrder(ch, ch[n].sides[0], d - 1) \o <<n>> \o InOrder(ch, ch[n].sides[1], d - 1)

\* the chunks of the tree in order
Keys(t, ch) == InOrder(ch, t.root, MaxChunks + 1)

\* sequence q with c left out
Without(q, c) == SelectSeq(q, LAMBDA x : x # c)

\* the chunk before c in q
Before(q, c) == q[(CHOOSE i \in 2 .. Len(q) : q[i] = c) - 1]

\* the tree is sound: its links form a tree that holds the present chunks
\* in ascending order of offset
Sound(t, ch, here) ==
    /\ IsTree(t, ch)
    /\ { Keys(t, ch)[i] : i \in 1 .. Len(Keys(t, ch)) } = here
    /\ \A i \in 1 .. (Len(Keys(t, ch)) - 1) :
           Offset(Keys(t, ch)[i]) < Offset(Keys(t, ch)[i + 1])

\* rb_tree_remove(c) up to the exchange of c with its predecessor
Swapped(c) ==
    With(FindOrCached(tree, chunk, Offset(c)), LAMBDA r :
         RemoveSwap([r.tree EXCEPT !.offset = UINT64_MAX], chunk, c))

\* C23: a step that removes from a sound tree a chunk c with two children
\* puts c's in-order predecessor in c's place (the root pointer, or the
\* link of c's parent that held c), returns, and leaves a tree whose chunks
\* in order are those before the step with c left out
C23_TwoChildRemoval ==
    [][\A c \in present :
          ( /\ present' = present \ {c}
            /\ Sound(tree, chunk, present)
            /\ chunk[c].sides[0] # NULL
            /\ chunk[c].sides[1] # NULL )
          => ( /\ IF tree.root = c
                  THEN Swapped(c).tree.root = Before(Keys(tree, chunk), c)
                  ELSE \E q \in present, sd \in {0, 1} :
                           /\ chunk[q].sides[sd] = c
                           /\ Swapped(c).chunk[q].sides[sd] = Before(Keys(tree, chunk), c)
               /\ fault' = "none"
               /\ IsTree(tree', chunk')
               /\ Keys(tree', chunk') = Without(Keys(tree, chunk), c) )]_vars

\* C24: in an index that only grows, after every insert the tree is a
\* binary search tree on the packed offset with a black root, no red node
\* with a red child and equally many black nodes on every path, and
\* rb_tree_find returns every inserted chunk
C24_InsertValid ==
    /\ fault = "none"
    /\ IndexBst(chunk, tree.root, -1, UINT64_MAX + 1, MaxChunks + 1)
    /\ tree.root # NULL => chunk[tree.root].color = MP_BLACK
    /\ IndexBlackHeight(chunk, tree.root, MaxChunks + 1) # -1
    /\ \A c \in present : Finds(tree, chunk, Offset(c), c)

\* every chunk inserted, the last one below a red parent, after a call
\* that inserted nothing new
C24_Witness ==
    /\ present = Chunks
    /\ calls = MaxCalls
    /\ IndexBlackHeight(chunk, tree.root, MaxChunks + 1) = 2
    /\ \E c \in Chunks : IsRed(chunk, c) /\ IsRed(chunk, chunk[c].sides[1]) = FALSE
                         /\ chunk[c].sides[0] # NULL

(***************************************************************************)
(* Properties of the pool and the page, continued                          *)
(***************************************************************************)
\* the pages n gets need
PagesFor(n) == (n + PAGE_SIZE - 1) \div PAGE_SIZE

\* after n gets and no ret there are ceil(n / P) pages, all but the newest
\* with fill = P and an empty ring, the newest with the rest
GrownPool ==
    /\ Len(page) = PagesFor(Cardinality(held))
    /\ pool.size = Len(page)
    /\ \A p \in Pages :
           /\ page[p].free = UINT16_MAX
           /\ page[p].fill = IF p < Len(page) THEN PAGE_SIZE
                             ELSE Cardinality(held) - PAGE_SIZE * (Len(page) - 1)

\* a get maps a page exactly when the head is nil or full; the page is then
\* in the tree and, unless the get filled it, the list head, and the chunk
\* issued is its first
GrowStep ==
    /\ Len(page') = Len(page) + (IF NeedsPage THEN 1 ELSE 0)
    /\ NeedsPage => /\ Len(page') \in TreePages'
                    /\ Len(page') \in ListPages'
                    /\ ~mp_page_full(page'[Len(page')]) => pool'.head = Len(page')
                    /\ held' = held \cup {<<Len(page'), 0>>}
                    /\ SubSeq(page', 1, Len(page)) =
                           [p \in 1 .. Len(page) |->
                               [page'[p] EXCEPT !.fill = page[p].fill,
                                                !.free = page[p].free,
                                                !.next = page[p].next,
                                                !.prev = page[p].prev]]

\* C25: in a pool that only serves gets, mp_pool_get maps a new page
\* exactly when pool.head is nil or the head page is full, links it and
\* issues from it, and after n gets ceil(n / P) pages exist, each but the
\* newest full with an empty ring
C25_PageCreation == []GrownPool /\ [][GrowStep]_vars

\* scenario S1 after P + 1 gets: two pages, fill P and fill 1
C25_Witness ==
    /\ Cardinality(held) = PAGE_SIZE + 1
    /\ Len(page) = 2
    /\ page[1].fill = PAGE_SIZE
    /\ page[2].fill = 1
    /\ pool.head = 2

\* the pages of the list from the head on, following nextp
RECURSIVE ListWalk(_, _, _)
ListWalk(pg, p, n) ==
    IF n = 0 \/ p = NULL THEN <<>> ELSE <<p>> \o ListWalk(pg, pg[p].nextp, n - 1)

ListSeq(pl, pg) == ListWalk(pg, pl.head, pl.size)

\* q and r are the same circular order
SameCycle(q, r) ==
    /\ Len(q) = Len(r)
    /\ Len(q) > 0 =>
           \E k \in 0 .. (Len(q) - 1) :
               \A i \in 1 .. Len(q) : r[i] = q[((i - 1 + k) % Len(q)) + 1]

\* the step is an mp_pool_ret of a held chunk: it returned, or the process died
RetStep ==
    /\ fault = "none"
    /\ (fault' # "none" \/ \E c \in held : held' = held \ {c})

\* C26: every mp_pool_ret of a held chunk returns, makes the page that
\* owns the chunk the list head, leaves the other pages in their circular
\* order, and the next mp_pool_get is served from that page
C26_RetMakesHead ==
    [][ RetStep
        => /\ fault' = "none"
           /\ \A c \in held :
                  held' = held \ {c}
                  => /\ pool'.head = c[1]
                     /\ SameCycle(Without(ListSeq(pool, page), c[1]),
                                  Without(ListSeq(pool', page'), c[1]))
                     /\ mp_pool_get(pool', page', TRUE, MAP_FAILED, NoJunk).chunk[1]
                            = c[1] ]_vars

\* the members of the free ring from its head on, following next
RECURSIVE RingWalk(_, _, _)
RingWalk(pg, i, n) ==
    IF n = 0 THEN <<>>
    ELSE <<i>> \o (IF pg.next[i] = pg.free THEN <<>> ELSE RingWalk(pg, pg.next[i], n - 1))

RingSeq(pg) == IF pg.free = UINT16_MAX THEN <<>> ELSE RingWalk(pg, pg.free, PAGE_SIZE)

\* what mp_page_get_new does in the present state of page 1: the position
\* fill while fill < P, ring or no ring; the ring head once fill = P; NULL
\* exactly when fill = P and the ring is empty
ServingOrder ==
    /\ page[1].fill < PAGE_SIZE
           => /\ mp_page_get_new(page[1])[1] = page[1].fill
              /\ mp_page_get_new(page[1])[2].fill = page[1].fill + 1
              /\ RingSeq(mp_page_get_new(page[1])[2]) = RingSeq(page[1])
    /\ (page[1].fill = PAGE_SIZE /\ RingSeq(page[1]) # <<>>)
           => /\ mp_page_get_new(page[1])[1] = Head(RingSeq(page[1]))
              /\ mp_page_get_new(page[1])[2].fill = PAGE_SIZE
              /\ RingSeq(mp_page_get_new(page[1])[2]) = Tail(RingSeq(page[1]))
    /\ (mp_page_get_new(page[1])[1] = UINT16_MAX)
           <=> (page[1].fill = PAGE_SIZE /\ RingSeq(page[1]) = <<>>)

\* a returned position joins the ring behind the positions returned before
\* it, and a position taken out of the ring leaves the others in order
RingFifo ==
    \A pos \in Pos :
        /\ (<<1, pos>> \in held /\ held' = held \ {<<1, pos>>})
               => RingSeq(page'[1]) = Append(RingSeq(page[1]), pos)
        /\ (<<1, pos>> \notin held /\ held' = held \cup {<<1, pos>>}
                /\ page'[1].fill = page[1].fill)
               => RingSeq(page'[1]) = Without(RingSeq(page[1]), pos)

\* C27: mp_page_get_new issues the never-issued positions in increasing
\* order while fill < P, then the ring members in the order in which they
\* were returned, and returns NULL exactly when the page is full
C27_ServingOrder == []ServingOrder /\ [][RingFifo]_vars

\* every position returned, the highest first: the ring is not in index order
C27_Witness ==
    /\ page[1].fill = PAGE_SIZE
    /\ held = {}
    /\ Len(RingSeq(page[1])) = PAGE_SIZE
    /\ Head(RingSeq(page[1])) = PAGE_SIZE - 1

\* each position of page 1 is never issued, in the ring, or with the
\* caller, and in one of the three only; the ring lies below fill, which is
\* at most P, and ring and caller together have fill positions
Partition ==
    /\ \A i \in Pos :
           /\ (i >= page[1].fill) \/ (i \in Ring(page[1])) \/ (<<1, i>> \in held)
           /\ ~((i >= page[1].fill) /\ (i \in Ring(page[1])))
           /\ ~((i >= page[1].fill) /\ (<<1, i>> \in held))
           /\ ~((i \in Ring(page[1])) /\ (<<1, i>> \in held))
    /\ page[1].fill \in 0 .. PAGE_SIZE
    /\ Len(RingSeq(page[1])) = Cardinality(Ring(page[1]))
    /\ Cardinality(Ring(page[1])) + Cardinality(held) = page[1].fill

\* C28: in every state of a page reached by get_new, get and ret of held
\* positions the positions are partitioned into never issued, in the ring
\* and issued to the caller, every ring member is below fill, fill is at
\* most P and never decreases, and ring and held positions number fill
C28_PagePartition == []Partition /\ [][page'[1].fill >= page[1].fill]_vars

\* a full-grown page with its first position in the ring and its last
\* with the caller
C28_Witness ==
    /\ page[1].fill = PAGE_SIZE
    /\ RingSeq(page[1]) = <<0>>
    /\ <<1, PAGE_SIZE - 1>> \in held

\* what rb_tree_find returns for each offset it may be asked for
Answers(t, ch) == [off \in Queries |-> rb_tree_find(t, ch, off).node]

\* C29: rb_tree_insert of a chunk whose offset the tree holds returns and
\* leaves the root, the children and colour of every node, and what
\* rb_tree_find returns for every offset as they were; the chunk stored
\* under the offset is still the one found
C29_DuplicateInsertNoop ==
    \A c \in Chunks :
        ColdWalk(tree, chunk, Offset(c)) # NULL
        => \E r \in {rb_tree_insert(tree, chunk, c)} :
               /\ r.fault = "none"
               /\ r.chunk = chunk
               /\ r.tree.root = tree.root
               /\ Finds(r.tree, r.chunk, Offset(c), ColdWalk(tree, chunk, Offset(c)))
               /\ Answers(r.tree, r.chunk) = Answers(tree, chunk)

\* the index at which rb_tree_remove(c) reads sides[] for the side of the
\* node under its parent: tree->pos as the lookup left it
RemoveSideIndex(t, ch, c) == FindOrCached(t, ch, Offset(c)).tree.pos

\* C30: no call on the index uses a slot of stack[] or sides[] outside
\* 0 .. 31: no walk runs past the last slot, and the remove of a present
\* chunk reads the side of the node at an index from 0 to 31, never -1
C30_StackInBounds ==
    [][ /\ fault' \notin {"overrun", "oob"}
        /\ \A c \in present :
               present' = present \ {c} => RemoveSideIndex(tree, chunk, c) \in Slots
      ]_vars

(***************************************************************************)
(* Properties of matrix destruction                                        *)
(***************************************************************************)
\* the chunks linked from the root of the index t
Linked(t, ch) == IndexFrom(ch, t.root, MaxChunks + 1)

\* the first mp_matrix_free of a matrix whose index is not empty
FirstFree == rets = <<>> /\ rets' # <<>>

\* C31: mp_matrix_free ends, hands each chunk of the index to mp_pool_ret
\* exactly once and no other chunk, and leaves the pool its pages, none of
\* them reset
C31_FreeAllOnce ==
    [][ FirstFree =>
          /\ fault' = "none"
          /\ Len(rets') = Cardinality(Linked(tree, chunk))
          /\ { rets'[i] : i \in 1 .. Len(rets') } = Linked(tree, chunk)
          /\ Len(page') = Len(page)
          /\ pool'.size = pool.size
          /\ \A p \in 1 .. Len(page) :
                 page'[p].fill = page[p].fill /\ page'[p].data = page[p].data
      ]_vars

\* C36: once mp_matrix_free has returned, the matrix reaches none of the
\* chunks it gave back: root and the cached node are NULL, rb_tree_find
\* answers NULL for every offset, and no chunk is handed to mp_pool_ret a
\* second time by another mp_matrix_free
C36_FreedIndexEmpty ==
    (rets # <<>> /\ fault = "none")
    => /\ tree.root = NULL
       /\ tree.find = NULL
       /\ \A off \in Queries : rb_tree_find(tree, chunk, off).node = NULL
       /\ \A i, j \in 1 .. Len(rets) : rets[i] = rets[j] => i = j

(***************************************************************************)
(* Properties of the declared size                                         *)
(***************************************************************************)
\* header and payload of a matrix of that size do not fit an unsigned word
Oversized(size) == HEADER + size[1] * size[2] * WORD >= WordVals

\* C32: mp_matrix_set_size fails for a size whose file length does not fit
\* an unsigned word, so that no matrix, sized by the caller or by
\* mp_matrix_recv from a received header, ever holds such a size
C32_OversizeRejected ==
    /\ (lastCall.op = "set_size" /\ Oversized(lastCall.arg)) => lastCall.ret = -1
    /\ \A i \in Mats : ~Oversized(matx[i].size)

(***************************************************************************)
(* Properties of the matrix index: remove, then insert                     *)
(***************************************************************************)
\* rb_tree_insert of c into the index (t, ch) puts c in it: a lookup of its
\* offset, cached or from the root, returns c
Inserts(t, ch, c) ==
    \E r \in {rb_tree_insert(t, ch, c)} :
        /\ r.fault = "none"
        /\ rb_tree_find(r.tree, r.chunk, Offset(c)).node = c
        /\ ColdWalk(r.tree, r.chunk, Offset(c)) = c

\* rb_tree_remove of c from the index (t, ch) changes no link and no colour
Untouched(t, ch, c) ==
    \A junk \in JunkSides :
        \E r \in {rb_tree_remove(t, ch, c, junk)} :
            r.fault = "none" /\ r.chunk = ch /\ r.tree.root = t.root

\* C33: right after rb_tree_remove has taken chunk c out of the index,
\* rb_tree_insert of c puts it back, and another rb_tree_remove of c instead
\* would change nothing
C33_ReinsertTakesEffect ==
    [][ \A c \in present :
            (present' = present \ {c} /\ fault' = "none")
            => Inserts(tree', chunk', c) /\ Untouched(tree', chunk', c)
      ]_vars

(***************************************************************************)
(* Properties of the pool: when a page is mapped                           *)
(***************************************************************************)
\* in the list from the head on, no page with a position to give comes
\* after a full page: the pages that are not full are a run that starts at
\* the head
FullLast ==
    fault = "none" =>
        \E q \in {ListSeq(pool, page)} :
            \A i, j \in 1 .. Len(q) :
                (i < j /\ mp_page_full(page[q[i]])) => mp_page_full(page[q[j]])

\* a step that maps a page is taken with every page of the pool full
MapsWhenFull ==
    Len(page') > Len(page) => \A p \in Pages : mp_page_full(page[p])

Behind == (ChunkLen + 1) .. (ChunkLen + RowBytes)

\* C35: mp_chunk_recv and mp_chunk_send of a chunk of any effective size
\* (w, h) with 1 <= w, h <= CHUNK_W stay inside the payload of the chunk:
\* no system call is handed an address behind it (none fails with EFAULT
\* when nothing is mapped there), mp_chunk_recv leaves the bytes behind it
\* as they were, and mp_chunk_send puts none of them on the stream
C35_ChunkIoInside ==
    [][ /\ sys'.errno # "EFAULT"
        /\ \A i \in Behind : cbuf'.data[i] = cbuf.data[i]
        /\ ( /\ status.send = "none"
             /\ status'.send # "none"
             /\ \A i \in Behind : cbuf.data[i] = ByteVals - 1 )
           => \A k \in (Len(sys.wire) + 1) .. Len(sys'.wire) :
                  sys'.wire[k] # ByteVals - 1 ]_vars
====
